---- MODULE Spec2Model ----
(***************************************************************************)
(* A model of the bifrost-timeseries storage engine: the ring buffer       *)
(* (buffer.rs), the combined index (index.rs), the engine facade           *)
(* (storage.rs) and the memory-mapped log (persistence.rs).                *)
(***************************************************************************)
EXTENDS Integers, Sequences, FiniteSets, TLC

VARIABLES
    ring,       \* CircularBuffer: buffer, capacity, ttl_seconds, counters
    op,         \* history: the last ring operation, its inputs and the ring before it
    pushed,     \* history: the samples pushed since the ring was created or cleared
    ringPoisoned, \* the ring's RwLock is poisoned
    index,      \* CombinedIndex: data_points, time_index, tag_index
    ilock,      \* the RwLock around the QueryEngine: writer, readers, poisoned
    stats,      \* EngineStats: total_writes, total_queries
    thr,        \* per thread: position in the running engine call, its inputs and locals
    hist,       \* history: per thread the samples acknowledged; the calls issued
    file,       \* the Log file at the storage path: exists, len, header, blocks
    inst,       \* per MmapStorage instance: position in new(), fields, mutexes held
    q,          \* the last call on the Combined Index: inputs and result
    eng         \* TimeSeriesEngine: position in with_config, config, storage, flusher, shutdown

ringVars == <<ring, op, pushed>>
engVars == <<ringPoisoned, index, ilock, stats, thr, hist>>
logVars == <<file, inst>>
vars == <<ring, op, pushed, ringPoisoned, index, ilock, stats, thr, hist, file, inst, q, eng>>

-----------------------------------------------------------------------------
(* Bounds of the model *)

MaxCapacity == 2        \* ring capacities 0..MaxCapacity
MaxTtl == 1             \* ttl_seconds 0..MaxTtl
MaxClockSec == 1        \* wall clock readings 0..MaxClockSec seconds
MaxWrites == 4          \* pushes per ring
MaxBatch == 2           \* samples per write_batch
MaxOps == 3             \* engine calls issued in one run
MaxPoints == 3          \* samples added to an index
TimestampBits == 16      \* width the model gives the signed 64-bit Timestamp
LargeValueRepeats == 64 \* 16-byte pieces of the string value that lies above the default size threshold

-----------------------------------------------------------------------------
(* types.rs: Value, DataPoint *)

Value_Integer(n) == [kind |-> "Integer", i |-> n, s |-> ""]
Value_Float(n) == [kind |-> "Float", i |-> n, s |-> ""]
Value_Boolean(b) == [kind |-> "Boolean", i |-> IF b THEN 1 ELSE 0, s |-> ""]
Value_String(str) == [kind |-> "String", i |-> 0, s |-> str]
Value_Bytes(str) == [kind |-> "Bytes", i |-> 0, s |-> str]

Value_size_bytes(v) ==
    CASE v.kind = "Integer" -> 8
      [] v.kind = "Float" -> 8
      [] v.kind = "Boolean" -> 1
      [] v.kind = "String" -> Len(v.s)
      [] v.kind = "Bytes" -> Len(v.s)

\* Option<HashMap<String, String>>: None, or Some(set of <<key, value>> pairs)
NoTags == [some |-> FALSE, map |-> {}]
SomeTags(m) == [some |-> TRUE, map |-> m]

with_timestamp(ts, value) == [timestamp |-> ts, value |-> value, tags |-> NoTags]
with_tags(ts, value, m) == [timestamp |-> ts, value |-> value, tags |-> SomeTags(m)]

RECURSIVE tags_size(_)
tags_size(m) ==
    IF m = {} THEN 0
    ELSE LET kv == CHOOSE p \in m : TRUE
         IN  Len(kv[1]) + Len(kv[2]) + tags_size(m \ {kv})

size_bytes(dp) ==
    LET base_size == 8 + Value_size_bytes(dp.value)
        tsize == IF dp.tags.some THEN tags_size(dp.tags.map) ELSE 0
    IN  base_size + tsize

RECURSIVE SumSizes(_)
SumSizes(seq) == IF seq = <<>> THEN 0 ELSE size_bytes(Head(seq)) + SumSizes(Tail(seq))

-----------------------------------------------------------------------------
(* buffer.rs: CircularBuffer *)

NANOS_PER_SEC == 1000000000

saturating_sub(a, b) == IF a >= b THEN a - b ELSE 0

CircularBuffer_with_ttl(capacity, ttl_seconds) ==
    [buffer |-> <<>>, capacity |-> capacity, ttl_seconds |-> ttl_seconds,
     total_written |-> 0, total_evicted |-> 0, memory_usage |-> 0]

CircularBuffer_new(capacity) == CircularBuffer_with_ttl(capacity, 0)

\* a pop_front that forgets to release the sample's bytes
pop_front_evict_keeps_memory(rb) ==
    [rb EXCEPT !.buffer = Tail(@), !.total_evicted = @ + 1]

\* pop_front with the bookkeeping both eviction paths perform
pop_front_evict(rb) ==
    [rb EXCEPT !.buffer = Tail(@),
               !.memory_usage = saturating_sub(@, size_bytes(Head(rb.buffer))),
               !.total_evicted = @ + 1]

\* an expiry loop that also drops a front sample of age exactly the TTL
RECURSIVE expire_loop_at_ttl(_, _, _)
expire_loop_at_ttl(rb, current_time, ttl_nanos) ==
    IF rb.buffer = <<>> THEN rb
    ELSE IF current_time - Head(rb.buffer).timestamp >= ttl_nanos
         THEN expire_loop_at_ttl(pop_front_evict(rb), current_time, ttl_nanos)
         ELSE rb

RECURSIVE expire_loop(_, _, _)
expire_loop(rb, current_time, ttl_nanos) ==
    IF rb.buffer = <<>> THEN rb
    ELSE IF current_time - Head(rb.buffer).timestamp > ttl_nanos
         THEN expire_loop(pop_front_evict(rb), current_time, ttl_nanos)
         ELSE rb

remove_expired(rb, current_time) ==
    IF rb.ttl_seconds = 0 THEN rb
    ELSE expire_loop(rb, current_time, rb.ttl_seconds * NANOS_PER_SEC)

\* capacity eviction with the comparison off by one (> for >=)
capacity_evict_off_by_one(rb) ==
    IF Len(rb.buffer) > rb.capacity
    THEN IF rb.buffer # <<>> THEN pop_front_evict(rb) ELSE rb
    ELSE rb

\* capacity eviction that drops the front whether or not the ring is full
capacity_evict_always(rb) ==
    IF rb.buffer # <<>> THEN pop_front_evict(rb) ELSE rb

capacity_evict(rb) ==
    IF Len(rb.buffer) >= rb.capacity
    THEN IF rb.buffer # <<>> THEN pop_front_evict(rb) ELSE rb
    ELSE rb

push_back(rb, data_point) ==
    [rb EXCEPT !.memory_usage = @ + size_bytes(data_point),
               !.buffer = Append(@, data_point),
               !.total_written = @ + 1]

push(rb, data_point, current_time) ==
    push_back(capacity_evict(remove_expired(rb, current_time)), data_point)

clear(rb) == [rb EXCEPT !.buffer = <<>>, !.memory_usage = 0]

compact(rb, current_time) == remove_expired(rb, current_time)

is_full(rb) == Len(rb.buffer) >= rb.capacity


-----------------------------------------------------------------------------
(* index.rs: TimeIndex, TagIndex, CombinedIndex *)

EmptyMap == [x \in {} |-> <<>>]

MapPut(m, k, v) == [x \in DOMAIN m \cup {k} |-> IF x = k THEN v ELSE m[x]]

None == [some |-> FALSE, v |-> 0]
Some(x) == [some |-> TRUE, v |-> x]

SeqToSet(seq) == {seq[i] : i \in 1..Len(seq)}

sort_unstable(seq) == SortSeq(seq, LAMBDA a, b : a < b)

TimeIndex_new == [index |-> EmptyMap, total_points |-> 0]

TimeIndex_add_point(ti, timestamp, position) ==
    [index |-> MapPut(ti.index, timestamp,
                      IF timestamp \in DOMAIN ti.index
                      THEN Append(ti.index[timestamp], position)
                      ELSE <<position>>),
     total_points |-> ti.total_points + 1]

\* the concatenation of the position lists of the keys in keys, ascending by key
RECURSIVE extend_in_key_order(_, _)
extend_in_key_order(m, keys) ==
    IF keys = {} THEN <<>>
    ELSE LET k == CHOOSE x \in keys : \A y \in keys : x <= y
         IN  m[k] \o extend_in_key_order(m, keys \ {k})

\* BTreeMap::range(start..=end); the caller has start <= end
TimeIndex_get_range(ti, start, end) ==
    sort_unstable(extend_in_key_order(ti.index,
        {k \in DOMAIN ti.index : start <= k /\ k <= end}))

TagIndex_new == [index |-> EmptyMap, reverse_index |-> EmptyMap]

\* index.entry(key).or_insert_with(HashMap::new).entry(value).or_insert_with(Vec::new).push(position)
posting_push(ix, key, value, position) ==
    LET bucket == IF key \in DOMAIN ix THEN ix[key] ELSE EmptyMap
        list == IF value \in DOMAIN bucket THEN bucket[value] ELSE <<>>
    IN  MapPut(ix, key, MapPut(bucket, value, Append(list, position)))

RECURSIVE posting_push_all(_, _, _)
posting_push_all(ix, tags, position) ==
    IF tags = {} THEN ix
    ELSE LET kv == CHOOSE p \in tags : TRUE
         IN  posting_push_all(posting_push(ix, kv[1], kv[2], position), tags \ {kv}, position)

TagIndex_add_point(tg, position, tags) ==
    [index |-> posting_push_all(tg.index, tags, position),
     reverse_index |-> MapPut(tg.reverse_index, position, tags)]

MapRemove(m, k) == [x \in DOMAIN m \ {k} |-> m[x]]

\* Vec::retain(|&p| p != position)
retain_others(list, position) == SelectSeq(list, LAMBDA p : p # position)

\* the body of remove_points for one (key, value) of the removed position
posting_remove(ix, key, value, position) ==
    IF key \notin DOMAIN ix THEN ix
    ELSE LET key_map ==
                 IF value \notin DOMAIN ix[key] THEN ix[key]
                 ELSE IF retain_others(ix[key][value], position) = <<>>
                      THEN MapRemove(ix[key], value)
                      ELSE MapPut(ix[key], value, retain_others(ix[key][value], position))
         IN  IF DOMAIN key_map = {} THEN MapRemove(ix, key) ELSE MapPut(ix, key, key_map)

RECURSIVE posting_remove_all(_, _, _)
posting_remove_all(ix, tags, position) ==
    IF tags = {} THEN ix
    ELSE LET kv == CHOOSE p \in tags : TRUE
         IN  posting_remove_all(posting_remove(ix, kv[1], kv[2], position), tags \ {kv}, position)

\* TagIndex::remove_points: the tags come from reverse_index.remove(&position)
RECURSIVE TagIndex_remove_points(_, _)
TagIndex_remove_points(tg, positions) ==
    IF positions = <<>> THEN tg
    ELSE LET position == Head(positions)
             removed == IF position \in DOMAIN tg.reverse_index
                        THEN [index |-> posting_remove_all(tg.index, tg.reverse_index[position],
                                                           position),
                              reverse_index |-> MapRemove(tg.reverse_index, position)]
                        ELSE tg
         IN  TagIndex_remove_points(removed, Tail(positions))

get_by_tag(tg, key, value) ==
    IF key \in DOMAIN tg.index /\ value \in DOMAIN tg.index[key]
    THEN [some |-> TRUE, positions |-> tg.index[key][value]]
    ELSE [some |-> FALSE, positions |-> <<>>]

CombinedIndex_new ==
    [time_index |-> TimeIndex_new, tag_index |-> TagIndex_new, data_points |-> <<>>]

\* a Time Index entry that counts positions from one
add_to_time_index_from_one(ci, data_point) ==
    [ci EXCEPT !.time_index = TimeIndex_add_point(@, data_point.timestamp, Len(ci.data_points) + 1)]

\* the three effects of CombinedIndex::add_point, in program order
add_to_time_index(ci, data_point) ==
    [ci EXCEPT !.time_index = TimeIndex_add_point(@, data_point.timestamp, Len(ci.data_points))]

add_to_tag_index(ci, data_point) ==
    IF data_point.tags.some
    THEN [ci EXCEPT !.tag_index = TagIndex_add_point(@, Len(ci.data_points), data_point.tags.map)]
    ELSE ci

store_data_point(ci, data_point) ==
    [ci EXCEPT !.data_points = Append(@, data_point)]

CombinedIndex_add_point(ci, data_point) ==
    store_data_point(add_to_tag_index(add_to_time_index(ci, data_point), data_point), data_point)

RECURSIVE CombinedIndex_add_points(_, _)
CombinedIndex_add_points(ci, data_points) ==
    IF data_points = <<>> THEN ci
    ELSE CombinedIndex_add_points(CombinedIndex_add_point(ci, Head(data_points)), Tail(data_points))

\* positions.iter().map(|&pos| &self.data_points[pos])
deref(ci, positions) == [i \in 1..Len(positions) |-> ci.data_points[positions[i] + 1]]

query_time_range(ci, start, end) == deref(ci, TimeIndex_get_range(ci.time_index, start, end))

\* the while loop of get_by_tags_and and query_combined: both inputs sorted
RECURSIVE intersect_sorted_skips_pair(_, _)
intersect_sorted_skips_pair(a, b) ==
    IF a = <<>> \/ b = <<>> THEN <<>>
    ELSE IF Head(a) = Head(b) THEN <<Head(a)>> \o intersect_sorted_skips_pair(Tail(a), Tail(b))
    ELSE intersect_sorted_skips_pair(Tail(a), Tail(b))
RECURSIVE intersect_sorted(_, _)
intersect_sorted(a, b) ==
    IF a = <<>> \/ b = <<>> THEN <<>>
    ELSE IF Head(a) = Head(b) THEN <<Head(a)>> \o intersect_sorted(Tail(a), Tail(b))
    ELSE IF Head(a) < Head(b) THEN intersect_sorted(Tail(a), b)
    ELSE intersect_sorted(a, Tail(b))

\* Vec::dedup: drops an element equal to the one before it
RECURSIVE dedup(_)
dedup(seq) ==
    IF Len(seq) <= 1 THEN seq
    ELSE IF seq[1] = seq[2] THEN dedup(Tail(seq))
    ELSE <<seq[1]>> \o dedup(Tail(seq))

\* the orders in which a HashMap of these pairs can be iterated
IterationOrders(tags) ==
    {order \in [1..Cardinality(tags) -> tags] :
        \A i, j \in 1..Cardinality(tags) : order[i] = order[j] => i = j}

\* the for loop of get_by_tags_and over the pairs in iteration order
RECURSIVE and_loop_skips_missing(_, _, _)
and_loop_skips_missing(tg, order, result) ==
    IF order = <<>> THEN (IF result.some THEN result.v ELSE <<>>)
    ELSE LET hit == get_by_tag(tg, Head(order)[1], Head(order)[2])
         IN  IF ~hit.some THEN and_loop_skips_missing(tg, Tail(order), result)
             ELSE IF ~result.some THEN and_loop_skips_missing(tg, Tail(order), Some(hit.positions))
             ELSE and_loop_skips_missing(tg, Tail(order),
                     Some(intersect_sorted(sort_unstable(result.v), sort_unstable(hit.positions))))
RECURSIVE and_loop(_, _, _)
and_loop(tg, order, result) ==
    IF order = <<>> THEN (IF result.some THEN result.v ELSE <<>>)
    ELSE LET hit == get_by_tag(tg, Head(order)[1], Head(order)[2])
         IN  IF ~hit.some THEN <<>>
             ELSE IF ~result.some THEN and_loop(tg, Tail(order), Some(hit.positions))
             ELSE and_loop(tg, Tail(order),
                     Some(intersect_sorted(sort_unstable(result.v), sort_unstable(hit.positions))))

get_by_tags_and(tg, order) ==
    IF order = <<>> THEN <<>> ELSE and_loop(tg, order, None)

RECURSIVE or_loop(_, _)
or_loop(tg, order) ==
    IF order = <<>> THEN <<>>
    ELSE get_by_tag(tg, Head(order)[1], Head(order)[2]).positions \o or_loop(tg, Tail(order))

get_by_tags_or(tg, order) == dedup(sort_unstable(or_loop(tg, order)))

tag_positions(tg, order, use_and) ==
    IF use_and THEN get_by_tags_and(tg, order) ELSE get_by_tags_or(tg, order)

query_tags(ci, order, use_and) == deref(ci, tag_positions(ci.tag_index, order, use_and))

query_combined_positions(ci, start, end, order, use_and) ==
    intersect_sorted(sort_unstable(TimeIndex_get_range(ci.time_index, start, end)),
                     sort_unstable(tag_positions(ci.tag_index, order, use_and)))

query_combined(ci, start, end, order, use_and) ==
    deref(ci, query_combined_positions(ci, start, end, order, use_and))

(***************************************************************************)
(* Timestamp arithmetic.  Timestamp is i64; the model keeps its structure  *)
(* (a least and a greatest value, wrap-around between them) at a width TLC *)
(* can compute with.  An operation whose result leaves the range panics in *)
(* a build with overflow checks and wraps in one without.                  *)
(***************************************************************************)
Timestamp_MAX == 2 ^ (TimestampBits - 1) - 1
Timestamp_MIN == -(2 ^ (TimestampBits - 1))

in_range(x) == Timestamp_MIN <= x /\ x <= Timestamp_MAX

wrapping(x) == ((x - Timestamp_MIN) % (2 ^ TimestampBits)) + Timestamp_MIN

abs(x) == IF x < 0 THEN -x ELSE x

\* i64 `/`: the quotient is truncated toward zero
truncating_div(a, b) ==
    IF (a >= 0) = (b > 0) THEN abs(a) \div abs(b) ELSE -(abs(a) \div abs(b))

\* TimeIndex::get_last_before: the keys below timestamp are walked downwards
\* and each position list backwards until count positions are taken, then
\* the result is reversed: the last count positions of the lists in key order
get_last_before(ti, timestamp, count) ==
    LET before == extend_in_key_order(ti.index, {k \in DOMAIN ti.index : k < timestamp})
        taken == IF count < Len(before) THEN count ELSE Len(before)
    IN  SubSeq(before, Len(before) - taken + 1, Len(before))

max_timestamp(ti) ==
    IF DOMAIN ti.index = {} THEN None
    ELSE Some(CHOOSE k \in DOMAIN ti.index : \A other \in DOMAIN ti.index : other <= k)

Returns(points) == [panicked |-> FALSE, points |-> points]
Panics == [panicked |-> TRUE, points |-> <<>>]

\* CombinedIndex::get_latest: get_last_before(max_timestamp + 1, count)
CombinedIndex_get_latest(ci, count, overflow_checks) ==
    LET newest == max_timestamp(ci.time_index) IN
    IF ~newest.some THEN Returns(<<>>)
    ELSE IF ~in_range(newest.v + 1) /\ overflow_checks THEN Panics
    ELSE Returns(deref(ci, get_last_before(ci.time_index, wrapping(newest.v + 1), count)))

\* an Option<AggregationType> that is None
NoAggregation == [some |-> FALSE, v |-> "None"]

\* QueryBuilder::new
QueryBuilder_new ==
    [start_time |-> None, end_time |-> None, tags |-> <<>>, tag_and_operation |-> TRUE,
     limit |-> None, aggregation |-> NoAggregation, group_by_interval |-> None]

\* query_time_range or query_combined on a range; BTreeMap::range panics
\* when start > end
filter_range(self, ci, start, end) ==
    IF start > end THEN Panics
    ELSE IF self.tags = <<>> THEN Returns(query_time_range(ci, start, end))
    ELSE Returns(query_combined(ci, start, end, self.tags, self.tag_and_operation))

\* QueryBuilder::execute_filters
execute_filters(self, ci, overflow_checks) ==
    CASE self.start_time.some /\ self.end_time.some ->
            filter_range(self, ci, self.start_time.v, self.end_time.v)
      [] self.start_time.some /\ ~self.end_time.some ->
            filter_range(self, ci, self.start_time.v, Timestamp_MAX)
      [] ~self.start_time.some /\ self.end_time.some ->
            filter_range(self, ci, Timestamp_MIN, self.end_time.v)
      [] OTHER ->
            IF self.tags # <<>>
            THEN Returns(query_tags(ci, self.tags, self.tag_and_operation))
            ELSE IF self.limit.some
            THEN CombinedIndex_get_latest(ci, self.limit.v, overflow_checks)
            ELSE Returns(query_time_range(ci, Timestamp_MIN, Timestamp_MAX))

\* QueryBuilder::extract_numeric_value; the values of the model convert to
\* f64 exactly
extract_numeric_value(value) ==
    IF value.kind \in {"Integer", "Float", "Boolean"} THEN Some(value.i) ELSE None

\* a projection that counts every other value as 0.0
RECURSIVE numeric_values_zero_for_others(_)
numeric_values_zero_for_others(data_points) ==
    IF data_points = <<>> THEN <<>>
    ELSE <<extract_numeric_value(Head(data_points).value).v>>
             \o numeric_values_zero_for_others(Tail(data_points))

\* data_points.iter().filter_map(|dp| self.extract_numeric_value(&dp.value))
RECURSIVE numeric_values(_)
numeric_values(data_points) ==
    IF data_points = <<>> THEN <<>>
    ELSE LET numeric == extract_numeric_value(Head(data_points).value)
         IN  (IF numeric.some THEN <<numeric.v>> ELSE <<>>) \o numeric_values(Tail(data_points))

RECURSIVE sum(_)
sum(values) == IF values = <<>> THEN 0 ELSE Head(values) + sum(Tail(values))

RECURSIVE gcd(_, _)
gcd(a, b) == IF b = 0 THEN a ELSE gcd(b, a % b)

\* an f64 quotient: a whole number as Value::Float of it, otherwise the
\* fraction in lowest terms
f64_div(a, b) ==
    IF a % b = 0 THEN Value_Float(a \div b)
    ELSE LET g == gcd(abs(a), b)
         IN  [kind |-> "Float", i |-> 0, s |-> "", num |-> a \div g, den |-> b \div g]

\* an Option<Value> that is None
NoValue == [some |-> FALSE, v |-> [kind |-> "None", i |-> 0, s |-> ""]]

\* QueryBuilder::calculate_aggregation
calculate_aggregation(data_points, agg_type) ==
    LET numeric == numeric_values(data_points)
        values == SeqToSet(numeric)
    IN  IF data_points = <<>> THEN NoValue
        ELSE CASE agg_type = "Count" -> Some(Value_Integer(Len(data_points)))
               [] agg_type = "First" -> Some(data_points[1].value)
               [] agg_type = "Last" -> Some(data_points[Len(data_points)].value)
               [] agg_type = "Min" ->
                    IF numeric = <<>> THEN NoValue
                    ELSE Some(Value_Float(CHOOSE v \in values : \A w \in values : v <= w))
               [] agg_type = "Max" ->
                    IF numeric = <<>> THEN NoValue
                    ELSE Some(Value_Float(CHOOSE v \in values : \A w \in values : w <= v))
               [] agg_type = "Sum" -> Some(Value_Float(sum(numeric)))
               [] agg_type = "Average" ->
                    IF numeric = <<>> THEN NoValue
                    ELSE Some(f64_div(sum(numeric), Len(numeric)))

timestamps(data_points) == [i \in 1..Len(data_points) |-> data_points[i].timestamp]

\* an AggregationResult; group holds the samples it was computed from
AggregationResult(agg_type, group, start_timestamp, end_timestamp) ==
    [aggregation |-> agg_type, value |-> calculate_aggregation(group, agg_type),
     count |-> Len(group), start_timestamp |-> start_timestamp,
     end_timestamp |-> end_timestamp, group |-> group]

unwrap_or(option, default) == IF option.some THEN option.v ELSE default

\* QueryBuilder::execute_simple_aggregation
execute_simple_aggregation(self, data_points, agg_type) ==
    LET seen == SeqToSet(timestamps(data_points)) IN
    IF data_points = <<>>
    THEN <<AggregationResult(agg_type, <<>>, unwrap_or(self.start_time, 0),
                             unwrap_or(self.end_time, 0))>>
    ELSE <<AggregationResult(agg_type, data_points,
              unwrap_or(self.start_time, CHOOSE t \in seen : \A u \in seen : t <= u),
              unwrap_or(self.end_time, CHOOSE t \in seen : \A u \in seen : u <= t))>>

\* the results of the groups, sorted by start timestamp
RECURSIVE grouped_results(_, _, _, _)
grouped_results(data_points, agg_type, interval_nanos, buckets) ==
    IF buckets = {} THEN <<>>
    ELSE LET bucket == CHOOSE b \in buckets : \A c \in buckets : b <= c
             group == SelectSeq(data_points,
                          LAMBDA dp : truncating_div(dp.timestamp, interval_nanos) = bucket)
         IN  <<AggregationResult(agg_type, group, bucket * interval_nanos,
                                 wrapping((bucket + 1) * interval_nanos - 1))>>
                 \o grouped_results(data_points, agg_type, interval_nanos, buckets \ {bucket})

\* QueryBuilder::execute_grouped_aggregation, for interval_nanos >= 0:
\* a zero interval divides by zero, and (bucket + 1) * interval_nanos - 1
\* can leave the range of i64
execute_grouped_aggregation(data_points, agg_type, interval_nanos, overflow_checks) ==
    LET buckets == {truncating_div(data_points[i].timestamp, interval_nanos) :
                       i \in 1..Len(data_points)}
    IN  IF data_points = <<>> THEN [panicked |-> FALSE, aggs |-> <<>>]
        ELSE IF interval_nanos = 0 THEN [panicked |-> TRUE, aggs |-> <<>>]
        ELSE IF overflow_checks
                /\ \E bucket \in buckets : ~in_range((bucket + 1) * interval_nanos)
        THEN [panicked |-> TRUE, aggs |-> <<>>]
        ELSE [panicked |-> FALSE,
              aggs |-> grouped_results(data_points, agg_type, interval_nanos, buckets)]

\* Vec::truncate
truncate(seq, len) == IF len < Len(seq) THEN SubSeq(seq, 1, len) ELSE seq

\* QueryBuilder::execute
execute(self, ci, overflow_checks) ==
    LET data_points == execute_filters(self, ci, overflow_checks)
        none == [panicked |-> FALSE, candidates |-> data_points.points,
                 points |-> <<>>, aggs |-> <<>>]
    IN  IF data_points.panicked THEN [none EXCEPT !.panicked = TRUE]
        ELSE IF self.aggregation.some /\ self.group_by_interval.some
        THEN LET grouped == execute_grouped_aggregation(data_points.points,
                                self.aggregation.v, self.group_by_interval.v, overflow_checks)
             IN  [none EXCEPT !.panicked = grouped.panicked, !.aggs = grouped.aggs]
        ELSE IF self.aggregation.some
        THEN [none EXCEPT !.aggs = execute_simple_aggregation(self, data_points.points,
                                                             self.aggregation.v)]
        ELSE [none EXCEPT !.points = IF self.limit.some
                                     THEN truncate(data_points.points, self.limit.v)
                                     ELSE data_points.points]

\* CircularBuffer::get_range
get_range(rb, start, end) ==
    SelectSeq(rb.buffer, LAMBDA dp : dp.timestamp >= start /\ dp.timestamp <= end)


-----------------------------------------------------------------------------
(* storage.rs: TimeSeriesEngine (write, write_batch, query_range) *)

Threads == {"t1", "t2"}

NoThread == "none"

ThreadIdle ==
    [pc |-> "idle", kind |-> "none", batch |-> <<>>, k |-> 0, lo |-> 0, hi |-> 0,
     ret |-> "none", result |-> <<>>, npushed |-> 0, nadded |-> 0, start |-> 0]

EngineIdle ==
    /\ ringPoisoned = FALSE
    /\ index = CombinedIndex_new
    /\ ilock = [writer |-> NoThread, readers |-> {}, poisoned |-> FALSE]
    /\ stats = [total_writes |-> 0, total_queries |-> 0]
    /\ thr = [t \in Threads |-> ThreadIdle]
    /\ hist = [acked |-> [t \in Threads |-> {}], ncalls |-> 0]

-----------------------------------------------------------------------------
(* persistence.rs: FileHeader, DataBlock, MmapStorage *)

MAGIC_NUMBER == 1112101716

FILE_VERSION == 1

MIN_FILE_SIZE == 1048576

\* std::mem::size_of::<FileHeader>()
SIZE_OF_FILE_HEADER == 88

\* AdaptiveCompressor::new: min_size_threshold
MIN_SIZE_THRESHOLD == 1024

\* bincode's size of a DataBlock without its data bytes
DATA_BLOCK_FIXED_SIZE == 37

FileHeader_default(now) ==
    [magic |-> MAGIC_NUMBER, version |-> FILE_VERSION, header_size |-> SIZE_OF_FILE_HEADER,
     total_points |-> 0, first_timestamp |-> None, last_timestamp |-> None,
     compression_enabled |-> TRUE, compression_level |-> 3,
     created_at |-> now, modified_at |-> now,
     data_offset |-> SIZE_OF_FILE_HEADER, checksum |-> 0]

\* the header that a run of zero bytes deserializes to
ZeroHeader ==
    [magic |-> 0, version |-> 0, header_size |-> 0,
     total_points |-> 0, first_timestamp |-> None, last_timestamp |-> None,
     compression_enabled |-> FALSE, compression_level |-> 0,
     created_at |-> 0, modified_at |-> 0, data_offset |-> 0, checksum |-> 0]

validate(header) == header.magic = MAGIC_NUMBER /\ header.version = FILE_VERSION

\* wrapping_add on u64; the sums of this model stay far below 2^64
calculate_checksum(header) ==
    header.magic + header.version + header.total_points + header.created_at

update_checksum(header) == [header EXCEPT !.checksum = calculate_checksum(header)]

\* a verification that only looks for a checksum being present
verify_checksum_nonzero(header) == header.checksum # 0

verify_checksum(header) == header.checksum = calculate_checksum(header)

find_write_offset(header) == header.data_offset

\* bincode::serialize of a Value: u32 variant tag, then the payload
Value_serialized_size(v) ==
    4 + CASE v.kind = "Integer" -> 8
          [] v.kind = "Float" -> 8
          [] v.kind = "Boolean" -> 1
          [] v.kind = "String" -> 8 + Len(v.s)
          [] v.kind = "Bytes" -> 8 + Len(v.s)

RECURSIVE tags_serialized_size(_)
tags_serialized_size(m) ==
    IF m = {} THEN 0
    ELSE LET kv == CHOOSE p \in m : TRUE
         IN  8 + Len(kv[1]) + 8 + Len(kv[2]) + tags_serialized_size(m \ {kv})

DataPoint_serialized_size(dp) ==
    8 + Value_serialized_size(dp.value)
      + 1 + (IF dp.tags.some THEN 8 + tags_serialized_size(dp.tags.map) ELSE 0)

RECURSIVE serialized_size(_)
serialized_size(data_points) ==
    IF data_points = <<>> THEN 8
    ELSE DataPoint_serialized_size(Head(data_points)) + serialized_size(Tail(data_points))

\* bincode's encoding as a sequence of fields <<type, value>>
field_size(field) ==
    CASE field[1] \in {"u64", "i64", "f64"} -> 8
      [] field[1] = "u32" -> 4
      [] field[1] = "u8" -> 1
      [] field[1] = "bytes" -> Len(field[2])

RECURSIVE fields_size(_)
fields_size(fields) ==
    IF fields = <<>> THEN 0 ELSE field_size(Head(fields)) + fields_size(Tail(fields))

serialize_str(str) == << <<"u64", Len(str)>>, <<"bytes", str>> >>

\* enum Value: the variant index as u32, then the payload
serialize_Value(v) ==
    CASE v.kind = "Integer" -> << <<"u32", 0>>, <<"i64", v.i>> >>
      [] v.kind = "Float" -> << <<"u32", 1>>, <<"f64", v.i>> >>
      [] v.kind = "Boolean" -> << <<"u32", 2>>, <<"u8", v.i>> >>
      [] v.kind = "String" -> << <<"u32", 3>> >> \o serialize_str(v.s)
      [] v.kind = "Bytes" -> << <<"u32", 4>> >> \o serialize_str(v.s)

\* HashMap<String, String>: the entries in the map's iteration order
RECURSIVE serialize_entries(_)
serialize_entries(m) ==
    IF m = {} THEN <<>>
    ELSE LET kv == CHOOSE p \in m : TRUE
         IN  serialize_str(kv[1]) \o serialize_str(kv[2]) \o serialize_entries(m \ {kv})

serialize_DataPoint(dp) ==
    << <<"i64", dp.timestamp>> >> \o serialize_Value(dp.value)
        \o (IF dp.tags.some
            THEN << <<"u8", 1>>, <<"u64", Cardinality(dp.tags.map)>> >>
                     \o serialize_entries(dp.tags.map)
            ELSE << <<"u8", 0>> >>)

RECURSIVE serialize_each(_)
serialize_each(data_points) ==
    IF data_points = <<>> THEN <<>>
    ELSE serialize_DataPoint(Head(data_points)) \o serialize_each(Tail(data_points))

\* a Vec<u8>: plain bytes, or a zstd frame of len bytes around them
Bytes(fields) == [zstd |-> FALSE, content |-> fields, len |-> fields_size(fields)]

\* bincode::serialize(data_points)
serialize(data_points) ==
    Bytes(<< <<"u64", Len(data_points)>> >> \o serialize_each(data_points))

\* bincode::deserialize: reading stops with an error at a field of another type
Err == [ok |-> FALSE, v |-> <<>>, at |-> 0]
Read(fields, at, type) ==
    IF at >= 1 /\ at <= Len(fields) /\ fields[at][1] = type
    THEN [ok |-> TRUE, v |-> fields[at][2], at |-> at + 1]
    ELSE Err

deserialize_str(fields, at) ==
    LET n == Read(fields, at, "u64")
        b == Read(fields, n.at, "bytes")
    IN  IF n.ok /\ b.ok /\ Len(b.v) = n.v THEN b ELSE Err

deserialize_Value(fields, at) ==
    LET variant == Read(fields, at, "u32") IN
    IF ~variant.ok THEN Err
    ELSE CASE variant.v = 0 ->
                LET i == Read(fields, variant.at, "i64")
                IN  IF i.ok THEN [i EXCEPT !.v = Value_Integer(@)] ELSE Err
           [] variant.v = 1 ->
                LET f == Read(fields, variant.at, "f64")
                IN  IF f.ok THEN [f EXCEPT !.v = Value_Float(@)] ELSE Err
           [] variant.v = 2 ->
                LET b == Read(fields, variant.at, "u8")
                IN  IF b.ok /\ b.v \in {0, 1} THEN [b EXCEPT !.v = Value_Boolean(@ = 1)] ELSE Err
           [] variant.v = 3 ->
                LET str == deserialize_str(fields, variant.at)
                IN  IF str.ok THEN [str EXCEPT !.v = Value_String(@)] ELSE Err
           [] variant.v = 4 ->
                LET str == deserialize_str(fields, variant.at)
                IN  IF str.ok THEN [str EXCEPT !.v = Value_Bytes(@)] ELSE Err
           [] OTHER -> Err

RECURSIVE deserialize_entries(_, _, _, _)
deserialize_entries(fields, at, n, m) ==
    IF n = 0 THEN [ok |-> TRUE, v |-> m, at |-> at]
    ELSE LET key == deserialize_str(fields, at)
             value == deserialize_str(fields, key.at)
         IN  IF key.ok /\ value.ok
             THEN deserialize_entries(fields, value.at, n - 1,
                      {kv \in m : kv[1] # key.v} \cup {<<key.v, value.v>>})
             ELSE Err

deserialize_tags(fields, at) ==
    LET some == Read(fields, at, "u8") IN
    IF ~some.ok \/ some.v \notin {0, 1} THEN Err
    ELSE IF some.v = 0 THEN [some EXCEPT !.v = NoTags]
    ELSE LET n == Read(fields, some.at, "u64")
             m == deserialize_entries(fields, n.at, n.v, {})
         IN  IF n.ok /\ m.ok THEN [m EXCEPT !.v = SomeTags(@)] ELSE Err

deserialize_DataPoint(fields, at) ==
    LET timestamp == Read(fields, at, "i64")
        value == deserialize_Value(fields, timestamp.at)
        tags == deserialize_tags(fields, value.at)
    IN  IF timestamp.ok /\ value.ok /\ tags.ok
        THEN [ok |-> TRUE, at |-> tags.at,
              v |-> [timestamp |-> timestamp.v, value |-> value.v, tags |-> tags.v]]
        ELSE Err

RECURSIVE deserialize_each(_, _, _)
deserialize_each(fields, at, n) ==
    IF n = 0 THEN [ok |-> TRUE, v |-> <<>>, at |-> at]
    ELSE LET dp == deserialize_DataPoint(fields, at)
             rest == deserialize_each(fields, dp.at, n - 1)
         IN  IF dp.ok /\ rest.ok THEN [rest EXCEPT !.v = <<dp.v>> \o @] ELSE Err

\* bincode::deserialize::<Vec<DataPoint>>(bytes); the bytes of a zstd frame
\* are no such encoding
deserialize(bytes) ==
    IF bytes.zstd THEN Err
    ELSE LET n == Read(bytes.content, 1, "u64")
         IN  IF n.ok THEN deserialize_each(bytes.content, n.at, n.v) ELSE Err

\* ZstdCompressor::compress_bytes: the frame zstd returns, compressed_len bytes long
compress_bytes(self, data, compressed_len) ==
    [zstd |-> TRUE, level |-> self.level, content |-> data.content, len |-> compressed_len]

\* ZstdCompressor::decompress_bytes: fails on bytes that are no zstd frame
decompress_bytes(compressed) ==
    IF compressed.zstd
    THEN [ok |-> TRUE, v |-> Bytes(compressed.content)]
    ELSE [ok |-> FALSE, v |-> compressed]

\* min_compression_ratio as a fraction: 0.8
AdaptiveCompressor_new ==
    [compressor |-> [level |-> 3], min_size_threshold |-> MIN_SIZE_THRESHOLD,
     min_compression_ratio |-> [num |-> 4, den |-> 5]]

with_thresholds(min_size, min_ratio) ==
    [compressor |-> [level |-> 3], min_size_threshold |-> min_size,
     min_compression_ratio |-> min_ratio]

Raw(serialized) ==
    [data |-> serialized, is_compressed |-> FALSE,
     original_size |-> serialized.len, compressed_size |-> serialized.len]

\* AdaptiveCompressor::compress_if_beneficial; compressed_len is the length
\* of what zstd returns for the serialized batch
compress_if_beneficial(self, data_points, compressed_len) ==
    LET serialized == serialize(data_points)
        compressed == compress_bytes(self.compressor, serialized, compressed_len)
    IN  IF serialized.len < self.min_size_threshold THEN Raw(serialized)
        \* ratio < self.min_compression_ratio
        ELSE IF compressed.len * self.min_compression_ratio.den
                    < self.min_compression_ratio.num * serialized.len
        THEN [data |-> compressed, is_compressed |-> TRUE,
              original_size |-> serialized.len, compressed_size |-> compressed.len]
        ELSE Raw(serialized)

\* a decoder that takes every payload for plain bytes
decompress_ignores_flag(self, compressed_data) ==
    deserialize(compressed_data.data)

\* AdaptiveCompressor::decompress
decompress(self, compressed_data) ==
    LET decompressed_bytes ==
            IF compressed_data.is_compressed
            THEN decompress_bytes(compressed_data.data)
            ELSE [ok |-> TRUE, v |-> compressed_data.data]
    IN  IF decompressed_bytes.ok THEN deserialize(decompressed_bytes.v) ELSE Err

\* the DataBlock append_data_points builds (its checksum is written and never read)
DataBlock(data_points, now) ==
    \* the batches of the Log model lie below the size threshold, so zstd
    \* is not reached and its output length plays no part
    LET compressed == compress_if_beneficial(AdaptiveCompressor_new, data_points,
                                             serialized_size(data_points))
    IN  [timestamp |-> now, point_count |-> Len(data_points),
         compressed_size |-> compressed.compressed_size,
         uncompressed_size |-> compressed.original_size,
         is_compressed |-> compressed.is_compressed,
         data |-> compressed.data]

\* bincode::serialized_size(&block)
block_size(block) == DATA_BLOCK_FIXED_SIZE + block.compressed_size

update_header_after_write(header, data_points, now) ==
    LET first == Head(data_points).timestamp
        last == data_points[Len(data_points)].timestamp
    IN  update_checksum(
          [header EXCEPT
             !.total_points = @ + Len(data_points),
             !.modified_at = now,
             !.first_timestamp = IF ~@.some \/ first < @.v THEN Some(first) ELSE @,
             !.last_timestamp = IF ~@.some \/ last > @.v THEN Some(last) ELSE @])

\* the loop of read_all_data_points over the mapping, from offset up to write_offset
RECURSIVE read_blocks(_, _, _)
read_blocks(f, offset, write_offset) ==
    IF ~(offset < write_offset) THEN [ok |-> TRUE, points |-> <<>>]
    ELSE IF offset >= f.len THEN [ok |-> FALSE, points |-> <<>>]
    ELSE LET at == {i \in 1..Len(f.blocks) : f.blocks[i].offset = offset} IN
         \* zero bytes deserialize to an empty block whose data decodes to no Vec
         IF at = {} THEN [ok |-> FALSE, points |-> <<>>]
         ELSE LET b == f.blocks[CHOOSE i \in at : TRUE].block
                  rest == read_blocks(f, offset + block_size(b), write_offset)
                  points == decompress(AdaptiveCompressor_new, b)
              IN  IF ~points.ok THEN [ok |-> FALSE, points |-> <<>>]
                  ELSE IF rest.ok THEN [ok |-> TRUE, points |-> points.v \o rest.points]
                  ELSE rest

read_all_data_points(storage, f) ==
    IF storage.mmap.some
    THEN read_blocks(f, storage.header.data_offset, storage.write_offset)
    ELSE [ok |-> TRUE, points |-> <<>>]

NoFile == [exists |-> FALSE, len |-> 0, header |-> ZeroHeader, blocks |-> <<>>]

\* OpenOptions::create(true) on a missing path: an empty file
EmptyFile == [exists |-> TRUE, len |-> 0, header |-> ZeroHeader, blocks |-> <<>>]

NoMmap == [some |-> FALSE, len |-> 0]

Instances == {"a", "b"}

LogConfigs ==
    { [enable_compression |-> TRUE, compression_level |-> 3],
      [enable_compression |-> FALSE, compression_level |-> 1] }

\* SystemTime::now() in seconds
LogClock == 0..MaxClockSec

\* the storage struct before MmapStorage::new is called
Unopened ==
    [pc |-> "start", file_exists |-> FALSE, config |-> CHOOSE c \in LogConfigs : TRUE,
     header |-> ZeroHeader, file_size |-> 0, write_offset |-> 0, mmap |-> NoMmap,
     compressor |-> AdaptiveCompressor_new, held |-> {}, ret |-> "none"]

LogIdle ==
    /\ file = NoFile
    /\ inst = [i \in Instances |-> Unopened]

NoQuery ==
    [name |-> "none", lo |-> 0, hi |-> 0, order |-> <<>>, use_and |-> FALSE,
     panicked |-> FALSE, positions |-> <<>>, result |-> <<>>]

\* TimeSeriesEngine::with_config has returned an engine without storage
EngineInMemory ==
    [pc |-> "ready",
     config |-> [enable_persistence |-> FALSE, storage_path |-> FALSE],
     storage |-> FALSE, flush_handle |-> FALSE, shutdown |-> FALSE]

AuxIdle ==
    /\ q = NoQuery
    /\ eng = EngineInMemory

-----------------------------------------------------------------------------
(* Inputs of the ring specification *)

Clock == {k * NANOS_PER_SEC : k \in 0..MaxClockSec}

RingSamples ==
    { with_timestamp(-1, Value_Integer(1)),
      with_timestamp(0, Value_Boolean(TRUE)),
      with_tags(1000, Value_String("ab"), {<<"device", "s1">>}) }

NoSample == with_timestamp(0, Value_Integer(0))

RingInit ==
    /\ \E c \in 0..MaxCapacity, ttl \in 0..MaxTtl :
          ring = IF ttl = 0 THEN CircularBuffer_new(c) ELSE CircularBuffer_with_ttl(c, ttl)
    /\ op = [name |-> "new", dp |-> NoSample, now |-> 0, before |-> ring]
    /\ pushed = <<>>
    /\ EngineIdle
    /\ LogIdle
    /\ AuxIdle

Push(dp, now) ==
    /\ ring.total_written < MaxWrites
    /\ ring' = push(ring, dp, now)
    /\ op' = [name |-> "push", dp |-> dp, now |-> now, before |-> ring]
    /\ pushed' = Append(pushed, dp)
    /\ UNCHANGED <<engVars, logVars, q, eng>>

Clear ==
    /\ ring' = clear(ring)
    /\ op' = [name |-> "clear", dp |-> NoSample, now |-> 0, before |-> ring]
    /\ pushed' = <<>>
    /\ UNCHANGED <<engVars, logVars, q, eng>>

Compact(now) ==
    /\ ring' = compact(ring, now)
    /\ op' = [name |-> "compact", dp |-> NoSample, now |-> now, before |-> ring]
    /\ UNCHANGED <<pushed, engVars, logVars, q, eng>>

RingNext ==
    \/ \E dp \in RingSamples, now \in Clock : Push(dp, now)
    \/ Clear
    \/ \E now \in Clock : Compact(now)

SpecRing == RingInit /\ [][RingNext]_vars


-----------------------------------------------------------------------------
(* The engine under concurrent calls *)

EngSamples ==
    { with_timestamp(-1, Value_Integer(1)),
      with_tags(1000, Value_String("ab"), {<<"device", "s1">>}) }

\* TimeSeriesConfig: the configurations the engine is run with
EngConfigs ==
    { [max_capacity |-> 1, ttl_seconds |-> 0],
      [max_capacity |-> 2, ttl_seconds |-> 1] }

BatchPool == [i \in 1..MaxBatch |->
                 IF i % 2 = 1 THEN with_timestamp(-1, Value_Integer(1))
                 ELSE with_tags(1000, Value_String("ab"), {<<"device", "s1">>})]

Batches == {SubSeq(BatchPool, 1, n) : n \in 0..MaxBatch}

QueryRanges == {<<-1, 1000>>, <<1000, 1000>>, <<1000, -1>>}

\* TimeSeriesEngine::with_config: an empty ring and index, no lock poisoned
EngInit ==
    /\ \E cfg \in EngConfigs : ring = CircularBuffer_with_ttl(cfg.max_capacity, cfg.ttl_seconds)
    /\ op = [name |-> "new", dp |-> NoSample, now |-> 0, before |-> ring]
    /\ pushed = <<>>
    /\ EngineIdle
    /\ LogIdle
    /\ AuxIdle

\* a thread that is not inside a call issues its next call
Call(t, kind, batch, lo, hi, pc) ==
    /\ thr[t].pc \in {"idle", "done"}
    /\ hist.ncalls < MaxOps
    /\ thr' = [thr EXCEPT ![t] = [ThreadIdle EXCEPT
                  !.pc = pc, !.kind = kind, !.batch = batch, !.k = 1, !.lo = lo, !.hi = hi]]
    /\ hist' = [hist EXCEPT !.ncalls = @ + 1]
    /\ UNCHANGED <<ringVars, ringPoisoned, index, ilock, stats, logVars, q, eng>>

write(t, data_point) == Call(t, "write", <<data_point>>, 0, 0, "w_push")

write_batch(t, data_points) ==
    Call(t, "write_batch", data_points, 0, 0, IF data_points = <<>> THEN "w_idx" ELSE "w_push")

query_range(t, start, end) == Call(t, "query_range", <<>>, start, end, "q_lock")

\* self.buffer.push(data_point.clone())? : one push under the ring's write lock
BufferPush(t, now) ==
    LET me == thr[t] IN
    /\ me.pc = "w_push"
    /\ IF ringPoisoned
       THEN /\ thr' = [thr EXCEPT ![t].pc = "done", ![t].ret = "err"]
            /\ UNCHANGED ring
       ELSE /\ ring' = push(ring, me.batch[me.k], now)
            /\ thr' = [thr EXCEPT ![t].npushed = @ + 1,
                                  ![t].k = IF me.k = Len(me.batch) THEN 1 ELSE me.k + 1,
                                  ![t].pc = IF me.k = Len(me.batch) THEN "w_idx" ELSE "w_push"]
    /\ UNCHANGED <<op, pushed, ringPoisoned, index, ilock, stats, hist, logVars, q, eng>>

\* a panic while the ring's write lock is held poisons the lock
BufferPushPanics(t) ==
    /\ thr[t].pc = "w_push"
    /\ ~ringPoisoned
    /\ ringPoisoned' = TRUE
    /\ thr' = [thr EXCEPT ![t].pc = "panicked"]
    /\ UNCHANGED <<ringVars, index, ilock, stats, hist, logVars, q, eng>>

\* the write guard dropped after every single sample
batch_guard_dropped_each(k, n) == TRUE

\* the write guard of write_batch is dropped once all n samples are added
batch_guard_dropped(k, n) == k = n

\* if let Ok(mut query_engine) = self.query_engine.write()
IndexWriteLock(t) ==
    LET me == thr[t] IN
    /\ me.pc = "w_idx"
    /\ IF ilock.poisoned
       THEN /\ thr' = [thr EXCEPT ![t].pc = "w_stats"]
            /\ UNCHANGED ilock
       ELSE /\ ilock.writer = NoThread
            /\ ilock.readers = {}
            /\ IF me.batch = <<>>
               THEN /\ thr' = [thr EXCEPT ![t].pc = "w_stats"]
                    /\ UNCHANGED ilock
               ELSE /\ thr' = [thr EXCEPT ![t].pc = "a_time",
                                          ![t].start = IF me.k = 1 THEN Len(index.data_points)
                                                       ELSE @]
                    /\ ilock' = [ilock EXCEPT !.writer = t]
    /\ UNCHANGED <<ringVars, ringPoisoned, index, stats, hist, logVars, q, eng>>

\* CombinedIndex::add_point, first effect: self.time_index.add_point
AddToTimeIndex(t) ==
    LET me == thr[t] IN
    /\ me.pc = "a_time"
    /\ index' = add_to_time_index(index, me.batch[me.k])
    /\ thr' = [thr EXCEPT ![t].pc = "a_tag"]
    /\ UNCHANGED <<ringVars, ringPoisoned, ilock, stats, hist, logVars, q, eng>>

\* CombinedIndex::add_point, second effect: self.tag_index.add_point
AddToTagIndex(t) ==
    LET me == thr[t] IN
    /\ me.pc = "a_tag"
    /\ index' = add_to_tag_index(index, me.batch[me.k])
    /\ thr' = [thr EXCEPT ![t].pc = "a_store"]
    /\ UNCHANGED <<ringVars, ringPoisoned, ilock, stats, hist, logVars, q, eng>>

\* CombinedIndex::add_point, third effect: self.data_points.push; the guard is
\* dropped after the last sample
StoreDataPoint(t) ==
    LET me == thr[t]
        n == Len(me.batch)
    IN
    /\ me.pc = "a_store"
    /\ index' = store_data_point(index, me.batch[me.k])
    /\ IF batch_guard_dropped(me.k, n)
       THEN /\ ilock' = [ilock EXCEPT !.writer = NoThread]
            /\ thr' = [thr EXCEPT ![t].nadded = @ + 1,
                                  ![t].k = IF me.k = n THEN @ ELSE @ + 1,
                                  ![t].pc = IF me.k = n THEN "w_stats" ELSE "w_idx"]
       ELSE /\ thr' = [thr EXCEPT ![t].nadded = @ + 1, ![t].k = @ + 1, ![t].pc = "a_time"]
            /\ UNCHANGED ilock
    /\ UNCHANGED <<ringVars, ringPoisoned, stats, hist, logVars, q, eng>>

\* a panic while the index's write lock is held poisons the lock
IndexWriterPanics(t) ==
    /\ thr[t].pc \in {"a_time", "a_tag", "a_store"}
    /\ ilock' = [ilock EXCEPT !.writer = NoThread, !.poisoned = TRUE]
    /\ thr' = [thr EXCEPT ![t].pc = "panicked"]
    /\ UNCHANGED <<ringVars, ringPoisoned, index, stats, hist, logVars, q, eng>>

\* stats.total_writes += count; Ok(())
WriteReturns(t) ==
    LET me == thr[t] IN
    /\ me.pc = "w_stats"
    /\ stats' = [stats EXCEPT !.total_writes = @ + Len(me.batch)]
    /\ thr' = [thr EXCEPT ![t].pc = "done", ![t].ret = "ok"]
    /\ hist' = [hist EXCEPT !.acked[t] = @ \cup SeqToSet(me.batch)]
    /\ UNCHANGED <<ringVars, ringPoisoned, index, ilock, logVars, q, eng>>

\* if let Ok(query_engine) = self.query_engine.read() ... else the ring's get_range
QueryReadLock(t) ==
    LET me == thr[t] IN
    /\ me.pc = "q_lock"
    /\ IF ilock.poisoned
       THEN /\ thr' = IF ringPoisoned
                      THEN [thr EXCEPT ![t].pc = "done", ![t].ret = "err"]
                      ELSE [thr EXCEPT ![t].pc = "q_stats",
                                       ![t].result = get_range(ring, me.lo, me.hi)]
            /\ UNCHANGED ilock
       ELSE /\ ilock.writer = NoThread
            /\ ilock' = [ilock EXCEPT !.readers = @ \cup {t}]
            /\ thr' = [thr EXCEPT ![t].pc = "q_read"]
    /\ UNCHANGED <<ringVars, ringPoisoned, index, stats, hist, logVars, q, eng>>

\* query_engine.get_time_range(start, end) under the read guard; BTreeMap::range
\* panics when start > end (a panicking reader does not poison an RwLock)
QueryRead(t) ==
    LET me == thr[t] IN
    /\ me.pc = "q_read"
    /\ ilock' = [ilock EXCEPT !.readers = @ \ {t}]
    /\ thr' = IF me.lo > me.hi
              THEN [thr EXCEPT ![t].pc = "panicked"]
              ELSE [thr EXCEPT ![t].pc = "q_stats",
                               ![t].result = query_time_range(index, me.lo, me.hi)]
    /\ UNCHANGED <<ringVars, ringPoisoned, index, stats, hist, logVars, q, eng>>

\* stats.total_queries += 1; Ok(result)
QueryReturns(t) ==
    /\ thr[t].pc = "q_stats"
    /\ stats' = [stats EXCEPT !.total_queries = @ + 1]
    /\ thr' = [thr EXCEPT ![t].pc = "done", ![t].ret = "ok"]
    /\ UNCHANGED <<ringVars, ringPoisoned, index, ilock, hist, logVars, q, eng>>

\* the steps of one thread that calls the engine
EngStep(t) ==
        \/ \E dp \in EngSamples : write(t, dp)
        \/ \E b \in Batches : write_batch(t, b)
        \/ \E r \in QueryRanges : query_range(t, r[1], r[2])
        \/ \E now \in Clock : BufferPush(t, now)
        \/ BufferPushPanics(t)
        \/ IndexWriteLock(t)
        \/ AddToTimeIndex(t)
        \/ AddToTagIndex(t)
        \/ StoreDataPoint(t)
        \/ IndexWriterPanics(t)
        \/ WriteReturns(t)
        \/ QueryReadLock(t)
        \/ QueryRead(t)
        \/ QueryReturns(t)

EngNext == \E t \in Threads : EngStep(t)

SpecEngine == EngInit /\ [][EngNext]_vars

-----------------------------------------------------------------------------
(* The Log under MmapStorage::new *)

\* the file layout after initialize_new under cfg at clock reading now, one
\* append_data_points(data_points) and flush()
FlushedLog(cfg, now, data_points) ==
    LET created == update_checksum(
                      [FileHeader_default(now) EXCEPT
                          !.compression_enabled = cfg.enable_compression,
                          !.compression_level = cfg.compression_level])
    IN  [exists |-> TRUE, len |-> MIN_FILE_SIZE,
         header |-> update_header_after_write(created, data_points, now),
         blocks |-> <<[offset |-> created.data_offset,
                       block |-> DataBlock(data_points, now * NANOS_PER_SEC)]>>]

FlushedLogs ==
    {FlushedLog(cfg, now, b) : cfg \in LogConfigs, now \in LogClock, b \in Batches \ {<<>>}}

\* the header fields calculate_checksum covers
CoveredFields == {"magic", "version", "total_points", "created_at"}

\* a change of the lowest or of the second byte of a field
HeaderMutations == {1, 256}

mutate(header, field, d) == [header EXCEPT ![field] = @ + d]

\* flushed Logs with one covered header field changed on disk
MutatedLogs ==
    {[f EXCEPT !.header = mutate(@, field, d)] :
        f \in FlushedLogs, field \in CoveredFields, d \in HeaderMutations}

\* the path holds no file, an empty file, a Log with one flushed batch, or
\* such a Log with a damaged header
InitialFiles == {NoFile, EmptyFile} \cup FlushedLogs \cup MutatedLogs

RingIdle ==
    /\ ring = CircularBuffer_new(1)
    /\ op = [name |-> "new", dp |-> NoSample, now |-> 0, before |-> ring]
    /\ pushed = <<>>

LogInit ==
    /\ file \in InitialFiles
    /\ inst = [i \in Instances |-> Unopened]
    /\ RingIdle
    /\ EngineIdle
    /\ AuxIdle

\* MmapStorage::new: let file_exists = file_path.exists()
path_exists(i, config) ==
    /\ inst[i].pc = "start"
    /\ inst' = [inst EXCEPT ![i].pc = "open", ![i].file_exists = file.exists,
                            ![i].config = config]
    /\ UNCHANGED <<file, ringVars, engVars, q, eng>>

\* MmapStorage::new: OpenOptions .create(true).open, then the storage struct
open_or_create(i, now) ==
    /\ inst[i].pc = "open"
    /\ file' = IF file.exists THEN file ELSE EmptyFile
    /\ inst' = [inst EXCEPT ![i].header = FileHeader_default(now),
                            ![i].compressor = AdaptiveCompressor_new,
                            ![i].pc = IF inst[i].file_exists THEN "load_existing"
                                      ELSE "initialize_new"]
    /\ UNCHANGED <<ringVars, engVars, q, eng>>

\* initialize_new: the header guard, then the file guard and file.set_len
initialize_new_set_len(i) ==
    /\ inst[i].pc = "initialize_new"
    /\ inst' = [inst EXCEPT
                  ![i].header = update_checksum(
                      [@ EXCEPT !.compression_enabled = inst[i].config.enable_compression,
                                !.compression_level = inst[i].config.compression_level]),
                  ![i].held = @ \cup {"header", "file"},
                  ![i].pc = "write_header"]
    /\ file' = [file EXCEPT
                  !.len = MIN_FILE_SIZE,
                  !.header = IF file.len >= SIZE_OF_FILE_HEADER THEN @ ELSE ZeroHeader]
    /\ UNCHANGED <<ringVars, engVars, q, eng>>

\* initialize_new: file.write_all(header_bytes), then file_size and write_offset
initialize_new_write_header(i) ==
    /\ inst[i].pc = "write_header"
    /\ file' = [file EXCEPT !.header = inst[i].header]
    /\ inst' = [inst EXCEPT ![i].file_size = MIN_FILE_SIZE,
                            ![i].write_offset = inst[i].header.data_offset,
                            ![i].pc = "create_mmap"]
    /\ UNCHANGED <<ringVars, engVars, q, eng>>

\* load_existing: the file guard, read_exact, deserialize, validate, verify_checksum
load_existing_read_header(i) ==
    /\ inst[i].pc = "load_existing"
    /\ IF /\ file.len >= SIZE_OF_FILE_HEADER
          /\ validate(file.header)
          /\ verify_checksum(file.header)
       THEN inst' = [inst EXCEPT ![i].held = @ \cup {"file"},
                                 ![i].header = file.header,
                                 ![i].pc = "metadata"]
       ELSE inst' = [inst EXCEPT ![i].pc = "failed", ![i].ret = "Persistence"]
    /\ UNCHANGED <<file, ringVars, engVars, q, eng>>

\* load_existing: file.metadata().len(), then header, file_size and write_offset
load_existing_metadata(i) ==
    /\ inst[i].pc = "metadata"
    /\ inst' = [inst EXCEPT ![i].file_size = file.len,
                            ![i].write_offset = find_write_offset(inst[i].header),
                            ![i].pc = "create_mmap"]
    /\ UNCHANGED <<file, ringVars, engVars, q, eng>>

\* create_mmap: self.file.lock(). Locking a std Mutex the thread already holds
\* never returns: it blocks forever or panics
create_mmap(i) ==
    /\ inst[i].pc = "create_mmap"
    /\ IF "file" \in inst[i].held
       THEN \/ inst' = [inst EXCEPT ![i].pc = "deadlocked"]
            \/ inst' = [inst EXCEPT ![i].pc = "panicked", ![i].held = {}]
       ELSE inst' = [inst EXCEPT ![i].mmap = [some |-> TRUE, len |-> inst[i].file_size],
                                 ![i].pc = "loaded"]
    /\ UNCHANGED <<file, ringVars, engVars, q, eng>>

LogStep(i) ==
    \/ \E config \in LogConfigs : path_exists(i, config)
    \/ \E now \in LogClock : open_or_create(i, now)
    \/ initialize_new_set_len(i)
    \/ initialize_new_write_header(i)
    \/ load_existing_read_header(i)
    \/ load_existing_metadata(i)
    \/ create_mmap(i)

LogNext == \E i \in Instances : LogStep(i)

\* every thread inside MmapStorage::new keeps being scheduled
SpecLog == LogInit /\ [][LogNext]_vars /\ \A i \in Instances : WF_vars(LogStep(i))

(***************************************************************************)
(* The Combined Index on its own: points are added and the index is        *)
(* queried by time range, by tags, and by both.                            *)
(***************************************************************************)
IndexSamples ==
    { with_timestamp(-1, Value_Integer(1)),
      with_tags(1000, Value_String("ab"), {<<"device", "s1">>}),
      with_tags(1000, Value_Integer(2), {<<"device", "s1">>, <<"unit", "c">>}),
      with_tags(2000, Value_Boolean(TRUE), {<<"device", "s2">>, <<"unit", "c">>}) }

\* (start, end) of the range queries, the last with start > end
IndexRanges == {<<-1, 1000>>, <<1000, 1000>>, <<1000, 2000>>, <<2000, -1>>}

\* tag predicates: a HashMap has one value per key
TagPredicates ==
    { {},
      {<<"device", "s1">>}, {<<"unit", "c">>}, {<<"device", "s3">>},
      {<<"device", "s1">>, <<"unit", "c">>},
      {<<"device", "s2">>, <<"unit", "c">>},
      {<<"device", "s1">>, <<"unit", "f">>} }

IndexInit ==
    /\ RingIdle
    /\ EngineIdle
    /\ LogIdle
    /\ AuxIdle

Asked(name, lo, hi, order, use_and) ==
    [name |-> name, lo |-> lo, hi |-> hi, order |-> order, use_and |-> use_and,
     panicked |-> FALSE, positions |-> <<>>, result |-> <<>>]

\* CombinedIndex::add_point
IndexAddPoint ==
    \E dp \in IndexSamples :
        /\ Len(index.data_points) < MaxPoints
        /\ index' = CombinedIndex_add_point(index, dp)
        /\ q' = Asked("add_point", 0, 0, <<>>, FALSE)
        /\ UNCHANGED <<ringVars, ringPoisoned, ilock, stats, thr, hist, logVars, eng>>

\* TimeIndex::get_range on the index's time index; BTreeMap::range panics
\* when the start of the range is greater than its end
IndexGetRange ==
    \E r \in IndexRanges : LET lo == r[1] hi == r[2] IN
        /\ q' = IF lo > hi
                THEN [Asked("get_range", lo, hi, <<>>, FALSE) EXCEPT !.panicked = TRUE]
                ELSE [Asked("get_range", lo, hi, <<>>, FALSE) EXCEPT
                         !.positions = TimeIndex_get_range(index.time_index, lo, hi)]
        /\ UNCHANGED <<ringVars, engVars, logVars, eng>>

\* TagIndex::get_by_tags_and on the index's tag index
IndexGetByTagsAnd ==
    \E tags \in TagPredicates : \E order \in IterationOrders(tags) :
        /\ q' = [Asked("get_by_tags_and", 0, 0, order, TRUE) EXCEPT
                    !.positions = get_by_tags_and(index.tag_index, order)]
        /\ UNCHANGED <<ringVars, engVars, logVars, eng>>

\* CombinedIndex::query_combined
IndexQueryCombined ==
    \E r \in IndexRanges, use_and \in BOOLEAN :
    \E tags \in TagPredicates : \E order \in IterationOrders(tags) :
    LET lo == r[1] hi == r[2] IN
        /\ q' = IF lo > hi
                THEN [Asked("query_combined", lo, hi, order, use_and) EXCEPT !.panicked = TRUE]
                ELSE [Asked("query_combined", lo, hi, order, use_and) EXCEPT
                         !.positions = query_combined_positions(index, lo, hi, order, use_and),
                         !.result = query_combined(index, lo, hi, order, use_and)]
        /\ UNCHANGED <<ringVars, engVars, logVars, eng>>

IndexNext ==
    \/ IndexAddPoint
    \/ IndexGetRange
    \/ IndexGetByTagsAnd
    \/ IndexQueryCombined

SpecIndex == IndexInit /\ [][IndexNext]_vars

(***************************************************************************)
(* The engine constructed with persistence: with_config runs init_storage, *)
(* which opens the Log with MmapStorage::new; one thread then writes,      *)
(* queries and flushes.  No engine ever holds a storage, because           *)
(* MmapStorage::new returns only its errors (create_mmap locks a mutex its *)
(* caller holds), so the steps that need one (the background flusher, the  *)
(* storage branch of flush and close) are not part of Next.                *)
(***************************************************************************)
EngineNew == [EngineInMemory EXCEPT !.pc = "new"]

\* what the storage path holds when the engine is constructed
PersistFiles ==
    {NoFile, EmptyFile}
        \cup {FlushedLog(cfg, 0, SubSeq(BatchPool, 1, 1)) : cfg \in LogConfigs}
        \cup {[f EXCEPT !.header = mutate(@, "magic", 1)] :
                 f \in {FlushedLog(cfg, 0, SubSeq(BatchPool, 1, 1)) : cfg \in LogConfigs}}

PersistInit ==
    /\ \E cfg \in EngConfigs : ring = CircularBuffer_with_ttl(cfg.max_capacity, cfg.ttl_seconds)
    /\ op = [name |-> "new", dp |-> NoSample, now |-> 0, before |-> ring]
    /\ pushed = <<>>
    /\ EngineIdle
    /\ file \in PersistFiles
    /\ inst = [i \in Instances |-> Unopened]
    /\ q = NoQuery
    /\ eng = EngineNew

\* TimeSeriesEngine::with_config up to the call of init_storage
with_config(enable_persistence, storage_path) ==
    /\ eng.pc = "new"
    /\ eng' = [eng EXCEPT
                  !.config = [enable_persistence |-> enable_persistence,
                              storage_path |-> storage_path],
                  !.pc = IF enable_persistence /\ storage_path
                         THEN "init_storage" ELSE "ready"]
    /\ UNCHANGED <<ringVars, engVars, logVars, q>>

\* init_storage: let storage = MmapStorage::new(path, &self.config)?
init_storage(i) ==
    /\ eng.pc = "init_storage"
    /\ LogStep(i)

\* Err(e) => tracing::warn!(...): with_config returns the engine without storage
init_storage_failed(i) ==
    /\ eng.pc = "init_storage"
    /\ inst[i].pc = "failed"
    /\ eng' = [eng EXCEPT !.pc = "ready"]
    /\ UNCHANGED <<ringVars, engVars, logVars, q>>

\* TimeSeriesEngine::flush: with no storage it returns Ok(()) at once
flush(t) ==
    /\ eng.pc = "ready"
    /\ thr[t].pc \in {"idle", "done"}
    /\ hist.ncalls < MaxOps
    /\ thr' = [thr EXCEPT ![t] =
                  IF eng.storage
                  THEN [ThreadIdle EXCEPT !.kind = "flush", !.pc = "f_lock"]
                  ELSE [ThreadIdle EXCEPT !.kind = "flush", !.pc = "done", !.ret = "ok"]]
    /\ hist' = [hist EXCEPT !.ncalls = @ + 1]
    /\ UNCHANGED <<ringVars, ringPoisoned, index, ilock, stats, logVars, q, eng>>

EngineCall(t) ==
    /\ eng.pc = "ready"
    /\ EngStep(t)

\* the engine's MmapStorage is instance "a"; thread "t1" uses the engine
PersistNext ==
    \/ \E enable_persistence \in BOOLEAN, storage_path \in BOOLEAN :
           with_config(enable_persistence, storage_path)
    \/ init_storage("a")
    \/ init_storage_failed("a")
    \/ EngineCall("t1")
    \/ flush("t1")

\* the constructing thread keeps being scheduled
SpecPersist ==
    PersistInit /\ [][PersistNext]_vars
        /\ WF_vars(init_storage("a"))
        /\ WF_vars(init_storage_failed("a"))

(***************************************************************************)
(* The adaptive codec on its own: a batch is encoded by                    *)
(* compress_if_beneficial and the result decoded by decompress.  zstd is   *)
(* outside the repository: the length of the frame it returns for an input *)
(* is one of ZstdLengths, and its decoder returns the frame's input.       *)
(***************************************************************************)
\* magic number, frame header and block header of the smallest zstd frame
ZSTD_FRAME_OVERHEAD == 9

CodecSamples ==
    { with_timestamp(-1, Value_Integer(1)),
      with_timestamp(0, Value_Float(2)),
      with_timestamp(1, Value_Boolean(TRUE)),
      with_tags(1000, Value_String("ab"), {<<"device", "s1">>, <<"unit", "c">>}),
      with_tags(1000, Value_Bytes(""), {}) }

\* str::repeat
RECURSIVE repeat(_, _)
repeat(str, n) == IF n = 0 THEN "" ELSE str \o repeat(str, n - 1)

\* one sample whose serialized form is longer than the default size threshold
LargeBatch == <<with_timestamp(1000, Value_String(repeat("AAAAAAAAAAAAAAAA", LargeValueRepeats)))>>

CodecBatches ==
    UNION {[1..n -> CodecSamples] : n \in 0..MaxBatch} \cup {LargeBatch}

\* AdaptiveCompressor::new() and with_thresholds with ratios 0.8 and 2.0
Compressors ==
    { AdaptiveCompressor_new,
      with_thresholds(0, [num |-> 4, den |-> 5]),
      with_thresholds(0, [num |-> 2, den |-> 1]) }

\* what zstd can return: half the input, nine tenths of it, or the input
\* stored in a frame
ZstdLengths(data) ==
    {data.len \div 2, (9 * data.len) \div 10, data.len + ZSTD_FRAME_OVERHEAD}

CodecInit ==
    /\ RingIdle
    /\ EngineIdle
    /\ LogIdle
    /\ AuxIdle

CodecEncode ==
    \E self \in Compressors, data_points \in CodecBatches :
    \E compressed_len \in ZstdLengths(serialize(data_points)) :
        /\ q' = [name |-> "compress_if_beneficial", self |-> self,
                 data_points |-> data_points, compressed_len |-> compressed_len,
                 compressed |-> compress_if_beneficial(self, data_points, compressed_len),
                 decompressed |-> Err]
        /\ UNCHANGED <<ringVars, engVars, logVars, eng>>

CodecDecode ==
    /\ q.name = "compress_if_beneficial"
    /\ q' = [q EXCEPT !.name = "decompress",
                      !.decompressed = decompress(q.self, q.compressed)]
    /\ UNCHANGED <<ringVars, engVars, logVars, eng>>

CodecNext ==
    \/ CodecEncode
    \/ CodecDecode

SpecCodec == CodecInit /\ [][CodecNext]_vars

-----------------------------------------------------------------------------
(* The query planner and the aggregations over a CombinedIndex              *)

\* samples written out of timestamp order, of every numeric variant and one
\* that is not numeric, the last at the greatest timestamp
QuerySamples ==
    { with_timestamp(1000, Value_Integer(3)),
      with_tags(-1, Value_String("ab"), {<<"device", "s1">>}),
      with_tags(500, Value_Float(2), {<<"device", "s1">>}),
      with_timestamp(Timestamp_MAX, Value_Boolean(TRUE)) }

AggregationTypes == {"Count", "Min", "Max", "Average", "Sum", "First", "Last"}

\* the builder methods start_time, end_time, tags, limit, aggregate and
\* group_by_interval, applied to QueryBuilder::new()
Query(start_time, end_time, tags, limit, aggregation, group_by_interval) ==
    [QueryBuilder_new EXCEPT !.start_time = start_time, !.end_time = end_time,
                             !.tags = tags, !.limit = limit,
                             !.aggregation = aggregation,
                             !.group_by_interval = group_by_interval]

\* time bounds of the queries: none, one-sided, two-sided, two-sided with
\* start > end
QueryBounds ==
    { <<None, None>>, <<Some(0), None>>, <<None, Some(500)>>,
      <<Some(-1), Some(1000)>>, <<Some(1000), Some(-1)>> }

AggregationBounds == { <<None, None>>, <<Some(-1), Some(1000)>>, <<Some(2000), Some(3000)>> }

QueryTags == { <<>>, << <<"device", "s1">> >> }

Queries ==
    {Query(b[1], b[2], tags, limit, NoAggregation, None) :
        b \in QueryBounds, tags \in QueryTags, limit \in {None, Some(1)}}
    \cup {Query(b[1], b[2], <<>>, None, Some(agg), None) :
        b \in AggregationBounds, agg \in AggregationTypes}
    \cup {Query(None, None, <<>>, Some(1), Some("Count"), None)}
    \cup {Query(b[1], b[2], <<>>, None, Some(agg), Some(1000)) :
        b \in AggregationBounds, agg \in {"Count", "First"}}
    \cup {Query(None, None, <<>>, None, Some("Count"), Some(0))}

QueryInit ==
    /\ RingIdle
    /\ EngineIdle
    /\ LogIdle
    /\ AuxIdle

\* QueryEngine::add_data_point
QueryAddPoint ==
    \E dp \in QuerySamples :
        /\ Len(index.data_points) < MaxPoints
        /\ dp \notin SeqToSet(index.data_points)
        /\ index' = CombinedIndex_add_point(index, dp)
        /\ q' = [name |-> "add_data_point"]
        /\ UNCHANGED <<ringVars, ringPoisoned, ilock, stats, thr, hist, logVars, eng>>

\* QueryEngine::execute_query, in a build with or without overflow checks
QueryExecute ==
    \E self \in Queries, overflow_checks \in BOOLEAN :
    LET result == execute(self, index, overflow_checks) IN
        /\ q' = [name |-> "execute", builder |-> self, n |-> 0,
                 overflow_checks |-> overflow_checks, panicked |-> result.panicked,
                 candidates |-> result.candidates, points |-> result.points,
                 aggs |-> result.aggs]
        /\ UNCHANGED <<ringVars, engVars, logVars, eng>>

\* TimeSeriesEngine::get_latest through QueryEngine::get_latest
QueryGetLatest ==
    \E count \in 0..MaxPoints, overflow_checks \in BOOLEAN :
    LET result == CombinedIndex_get_latest(index, count, overflow_checks) IN
        /\ q' = [name |-> "get_latest", builder |-> QueryBuilder_new, n |-> count,
                 overflow_checks |-> overflow_checks, panicked |-> result.panicked,
                 candidates |-> result.points, points |-> result.points, aggs |-> <<>>]
        /\ UNCHANGED <<ringVars, engVars, logVars, eng>>

QueryNext ==
    \/ QueryAddPoint
    \/ QueryExecute
    \/ QueryGetLatest

SpecQuery == QueryInit /\ [][QueryNext]_vars

-----------------------------------------------------------------------------
(* The Tag Index under add_point and remove_points *)

TagSlots == 0..1

TagSets == { {<<"device", "s1">>}, {<<"device", "s2">>},
             {<<"device", "s1">>, <<"unit", "c">>}, {} }

TagRemovals == { <<0>>, <<1>>, <<0, 1>>, <<1, 1>> }

\* TagIndex::new
TagInit ==
    /\ RingIdle
    /\ EngineIdle
    /\ LogIdle
    /\ AuxIdle

\* TagIndex::add_point
TagAddPoint ==
    \E position \in TagSlots, tags \in TagSets :
        /\ hist.ncalls < MaxOps
        /\ index' = [index EXCEPT !.tag_index = TagIndex_add_point(@, position, tags)]
        /\ hist' = [hist EXCEPT !.ncalls = @ + 1]
        /\ UNCHANGED <<ringVars, ringPoisoned, ilock, stats, thr, logVars, q, eng>>

\* TagIndex::remove_points
TagRemovePoints ==
    \E positions \in TagRemovals :
        /\ index' = [index EXCEPT !.tag_index = TagIndex_remove_points(@, positions)]
        /\ UNCHANGED <<ringVars, ringPoisoned, ilock, stats, thr, hist, logVars, q, eng>>

TagNext ==
    \/ TagAddPoint
    \/ TagRemovePoints

SpecTagIndex == TagInit /\ [][TagNext]_vars

-----------------------------------------------------------------------------
(* The Log under append_data_points, stats, read_all_data_points and close.  *)
(* The storage is the struct MmapStorage::new builds (persistence.rs         *)
(* 150-158) with the values initialize_new or load_existing assign to its    *)
(* fields and every guard of new released; new itself stops in create_mmap   *)
(* (SpecLog), so these are the states its callers would be handed.           *)

Mutexes == {"mmap", "file", "header", "file_size", "write_offset"}

AppendSamples ==
    [i \in 1..2 |-> IF i = 1 THEN with_timestamp(1000, Value_Integer(1))
                    ELSE with_timestamp(-1, Value_Integer(2))]

\* batches in and out of timestamp order, and the empty batch
AppendBatches == { <<>>, <<AppendSamples[2]>>, <<AppendSamples[1], AppendSamples[2]>> }

\* the struct fields after initialize_new(config) at clock reading now
Storage_initialized(config, now) ==
    LET header == update_checksum(
                     [FileHeader_default(now) EXCEPT
                         !.compression_enabled = config.enable_compression,
                         !.compression_level = config.compression_level])
    IN  [header |-> header, file_size |-> MIN_FILE_SIZE, write_offset |-> header.data_offset,
         mmap |-> [some |-> TRUE, len |-> MIN_FILE_SIZE],
         locks |-> [m \in Mutexes |-> [owner |-> NoThread, poisoned |-> FALSE]]]

\* the struct fields after load_existing on file f
Storage_loaded(f) ==
    [header |-> f.header, file_size |-> f.len, write_offset |-> find_write_offset(f.header),
     mmap |-> [some |-> TRUE, len |-> f.len],
     locks |-> [m \in Mutexes |-> [owner |-> NoThread, poisoned |-> FALSE]]]

\* a Log file that ends with its header
HeaderOnlyFile(now) ==
    [exists |-> TRUE, len |-> SIZE_OF_FILE_HEADER,
     header |-> update_checksum(FileHeader_default(now)), blocks |-> <<>>]

CallerIdle ==
    [pc |-> "idle", kind |-> "none", batch |-> <<>>, now |-> 0, block_len |-> 0,
     new_size |-> 0, offset |-> 0, points |-> <<>>, copied |-> FALSE, ret |-> "none",
     seen |-> [file_size |-> 0, data_size |-> 0, total_points |-> 0]]

AppendInit ==
    /\ \E now \in LogClock :
          \/ /\ file = [exists |-> TRUE, len |-> MIN_FILE_SIZE,
                        header |-> Storage_initialized(CHOOSE c \in LogConfigs : TRUE, now).header,
                        blocks |-> <<>>]
             /\ inst = Storage_initialized(CHOOSE c \in LogConfigs : TRUE, now)
          \/ /\ file = HeaderOnlyFile(now)
             /\ inst = Storage_loaded(file)
    /\ thr = [t \in Threads |-> CallerIdle]
    /\ hist = [ncalls |-> 0, appended |-> <<>>, started |-> <<>>, laid |-> <<>>]
    /\ RingIdle
    /\ ringPoisoned = FALSE
    /\ index = CombinedIndex_new
    /\ ilock = [writer |-> NoThread, readers |-> {}, poisoned |-> FALSE]
    /\ stats = [total_writes |-> 0, total_queries |-> 0]
    /\ AuxIdle

appendOther == <<ringVars, ringPoisoned, index, ilock, stats, q, eng>>

\* Mutex::lock on each of ms would return at once
Free(ms) == \A m \in ms : inst.locks[m].owner = NoThread

\* one of ms was poisoned by a panicking holder: lock().unwrap() panics
Poisoned(ms) == \E m \in ms : inst.locks[m].poisoned

Locked(storage, t, ms) ==
    [storage EXCEPT !.locks = [m \in Mutexes |->
        IF m \in ms THEN [@[m] EXCEPT !.owner = t] ELSE @[m]]]

Unlocked(storage, ms) ==
    [storage EXCEPT !.locks = [m \in Mutexes |->
        IF m \in ms THEN [@[m] EXCEPT !.owner = NoThread] ELSE @[m]]]

\* a panic unwinds thread t: every guard it holds is dropped and poisons its mutex
Unwound(storage, t) ==
    [storage EXCEPT !.locks = [m \in Mutexes |->
        IF @[m].owner = t THEN [owner |-> NoThread, poisoned |-> TRUE] ELSE @[m]]]

Panicked(t) ==
    /\ inst' = Unwound(inst, t)
    /\ thr' = [thr EXCEPT ![t].pc = "panicked"]
    /\ UNCHANGED <<file, hist>>

\* a thread that is not inside a call issues its next call
StorageCall(t, kind, data_points, now, pc) ==
    /\ thr[t].pc \in {"idle", "done"}
    /\ hist.ncalls < MaxOps
    /\ thr' = [thr EXCEPT ![t] = [CallerIdle EXCEPT
                  !.pc = pc, !.kind = kind, !.batch = data_points, !.now = now,
                  !.block_len = block_size(DataBlock(data_points, now * NANOS_PER_SEC)),
                  !.ret = IF pc = "done" THEN "ok" ELSE "none"]]
    /\ hist' = [hist EXCEPT !.ncalls = @ + 1,
                            !.started = IF kind = "append_data_points" /\ pc # "done"
                                        THEN Append(@, data_points) ELSE @]
    /\ UNCHANGED <<inst, file, appendOther>>

\* append_data_points: Ok(()) at once on an empty batch, else the block is built
append_data_points(t, data_points, now) ==
    StorageCall(t, "append_data_points", data_points, now,
                IF data_points = <<>> THEN "done" ELSE "write_data_block")

\* write_data_block: the guards of write_offset and file_size, then the size check
write_data_block(t) ==
    LET me == thr[t]
        required_size == inst.write_offset + me.block_len
        new_size == IF required_size * 2 > inst.file_size * 2
                    THEN required_size * 2 ELSE inst.file_size * 2
    IN
    /\ me.pc = "write_data_block"
    /\ Free({"write_offset", "file_size"})
    /\ IF Poisoned({"write_offset", "file_size"})
       THEN Panicked(t)
       ELSE /\ inst' = Locked(inst, t, {"write_offset", "file_size"})
            /\ thr' = IF required_size > inst.file_size
                      THEN [thr EXCEPT ![t].pc = "resize_file", ![t].new_size = new_size]
                      ELSE [thr EXCEPT ![t].pc = "write_to_mmap"]
            /\ UNCHANGED <<file, hist>>
    /\ UNCHANGED appendOther

\* resize_file: *self.mmap.lock().unwrap() = None
resize_file_unmap(t) ==
    /\ thr[t].pc = "resize_file"
    /\ Free({"mmap"})
    /\ IF Poisoned({"mmap"})
       THEN Panicked(t)
       ELSE /\ inst' = [inst EXCEPT !.mmap = NoMmap]
            /\ thr' = [thr EXCEPT ![t].pc = "set_len"]
            /\ UNCHANGED <<file, hist>>
    /\ UNCHANGED appendOther

\* resize_file: the file guard, file.set_len(new_size), drop(file)
resize_file_set_len(t) ==
    /\ thr[t].pc = "set_len"
    /\ Free({"file"})
    /\ IF Poisoned({"file"})
       THEN Panicked(t)
       ELSE /\ file' = [file EXCEPT !.len = thr[t].new_size]
            /\ thr' = [thr EXCEPT ![t].pc = "create_mmap"]
            /\ UNCHANGED <<inst, hist>>
    /\ UNCHANGED appendOther

\* resize_file: create_mmap takes the file guard and then locks file_size, which
\* write_data_block holds on the same thread: the lock never returns, it blocks
\* forever or panics
resize_file_create_mmap(t) ==
    /\ thr[t].pc = "create_mmap"
    /\ inst.locks["file_size"].owner = t
    /\ Free({"file"})
    /\ IF Poisoned({"file"})
       THEN Panicked(t)
       ELSE \/ /\ inst' = Locked(inst, t, {"file"})
               /\ thr' = [thr EXCEPT ![t].pc = "deadlocked"]
               /\ UNCHANGED <<file, hist>>
            \/ Panicked(t)
    /\ UNCHANGED appendOther

\* write_data_block: the mmap guard, the copy if let Some(mmap), the advance of
\* write_offset, and the drop of the three guards
write_data_block_copy(t) ==
    LET me == thr[t] IN
    /\ me.pc = "write_to_mmap"
    /\ Free({"mmap"})
    /\ IF Poisoned({"mmap"})
       THEN Panicked(t)
       ELSE /\ file' = IF inst.mmap.some
                       THEN [file EXCEPT !.blocks = Append(@,
                               [offset |-> inst.write_offset,
                                block |-> DataBlock(me.batch, me.now * NANOS_PER_SEC)])]
                       ELSE file
            /\ inst' = Unlocked(
                          [inst EXCEPT !.write_offset = @ + me.block_len],
                          {"write_offset", "file_size"})
            /\ thr' = [thr EXCEPT ![t].pc = "update_header", ![t].copied = inst.mmap.some]
            /\ hist' = [hist EXCEPT !.laid = Append(@,
                          [offset |-> inst.write_offset, len |-> me.block_len,
                           point_count |-> Len(me.batch)])]
    /\ UNCHANGED appendOther

\* update_header_after_write: the header guard and the new header fields
update_header_lock(t) ==
    LET me == thr[t] IN
    /\ me.pc = "update_header"
    /\ Free({"header"})
    /\ IF Poisoned({"header"})
       THEN Panicked(t)
       ELSE /\ inst' = Locked([inst EXCEPT !.header =
                                  update_header_after_write(@, me.batch, me.now)],
                              t, {"header"})
            /\ thr' = [thr EXCEPT ![t].pc = "write_header"]
            /\ UNCHANGED <<file, hist>>
    /\ UNCHANGED appendOther

\* update_header_after_write: the mmap guard, the header bytes copied if let
\* Some(mmap), Ok(()) from append_data_points
update_header_write(t) ==
    LET me == thr[t] IN
    /\ me.pc = "write_header"
    /\ Free({"mmap"})
    /\ IF Poisoned({"mmap"})
       THEN Panicked(t)
       ELSE /\ file' = IF inst.mmap.some THEN [file EXCEPT !.header = inst.header] ELSE file
            /\ inst' = Unlocked(inst, {"header"})
            /\ thr' = [thr EXCEPT ![t].pc = "done", ![t].ret = "ok"]
            /\ hist' = [hist EXCEPT !.appended = Append(@, me.batch)]
    /\ UNCHANGED appendOther

\* MmapStorage::stats is called
Storage_stats(t) == StorageCall(t, "stats", <<>>, 0, "stats")

\* stats: let header = self.header.lock().unwrap()
stats_lock_header(t) ==
    /\ thr[t].pc = "stats"
    /\ Free({"header"})
    /\ IF Poisoned({"header"})
       THEN Panicked(t)
       ELSE /\ inst' = Locked(inst, t, {"header"})
            /\ thr' = [thr EXCEPT ![t].pc = "stats_read"]
            /\ UNCHANGED <<file, hist>>
    /\ UNCHANGED appendOther

\* stats: file_size and write_offset read under their locks, the StorageStats
\* built from them and the header, Ok
stats_read(t) ==
    /\ thr[t].pc = "stats_read"
    /\ Free({"file_size", "write_offset"})
    /\ IF Poisoned({"file_size", "write_offset"})
       THEN Panicked(t)
       ELSE /\ inst' = Unlocked(inst, {"header"})
            /\ thr' = [thr EXCEPT ![t].pc = "done", ![t].ret = "ok",
                                  ![t].seen = [file_size |-> inst.file_size,
                                               data_size |-> inst.write_offset,
                                               total_points |-> inst.header.total_points]]
            /\ UNCHANGED <<file, hist>>
    /\ UNCHANGED appendOther

\* MmapStorage::read_all_data_points is called
Storage_read_all(t) == StorageCall(t, "read_all_data_points", <<>>, 0, "read_all")

\* read_all_data_points: the header guard, offset = header.data_offset
read_all_lock_header(t) ==
    /\ thr[t].pc = "read_all"
    /\ Free({"header"})
    /\ IF Poisoned({"header"})
       THEN Panicked(t)
       ELSE /\ inst' = Locked(inst, t, {"header"})
            /\ thr' = [thr EXCEPT ![t].pc = "read_lock_mmap",
                                  ![t].offset = inst.header.data_offset]
            /\ UNCHANGED <<file, hist>>
    /\ UNCHANGED appendOther

\* read_all_data_points: the mmap guard; Ok(vec![]) when there is no mapping
read_all_lock_mmap(t) ==
    /\ thr[t].pc = "read_lock_mmap"
    /\ Free({"mmap"})
    /\ IF Poisoned({"mmap"})
       THEN Panicked(t)
       ELSE /\ IF inst.mmap.some
               THEN /\ inst' = Locked(inst, t, {"mmap"})
                    /\ thr' = [thr EXCEPT ![t].pc = "read_loop"]
               ELSE /\ inst' = Unlocked(inst, {"header"})
                    /\ thr' = [thr EXCEPT ![t].pc = "done", ![t].ret = "ok"]
            /\ UNCHANGED <<file, hist>>
    /\ UNCHANGED appendOther

\* read_all_data_points: one test of offset < *self.write_offset.lock().unwrap()
\* and, when it holds, one read_data_block_at and decompress
read_all_loop(t) ==
    LET me == thr[t]
        at == {i \in 1..Len(file.blocks) : file.blocks[i].offset = me.offset}
        b == file.blocks[CHOOSE i \in at : TRUE].block
        points == decompress(AdaptiveCompressor_new, b)
        returns(ret) == /\ inst' = Unlocked(inst, {"header", "mmap"})
                        /\ thr' = [thr EXCEPT ![t].pc = "done", ![t].ret = ret,
                                              ![t].seen = [file_size |-> inst.file_size,
                                                           data_size |-> inst.write_offset,
                                                           total_points |-> inst.header.total_points]]
    IN
    /\ me.pc = "read_loop"
    /\ Free({"write_offset"})
    /\ IF Poisoned({"write_offset"})
       THEN Panicked(t)
       ELSE /\ IF ~(me.offset < inst.write_offset) THEN returns("ok")
               ELSE IF me.offset >= inst.mmap.len \/ at = {} THEN returns("err")
               ELSE IF ~points.ok THEN returns("err")
               ELSE /\ thr' = [thr EXCEPT ![t].points = @ \o points.v,
                                          ![t].offset = @ + block_size(b)]
                    /\ UNCHANGED inst
            /\ UNCHANGED <<file, hist>>
    /\ UNCHANGED appendOther

\* MmapStorage::close is called
Storage_close(t) == StorageCall(t, "close", <<>>, 0, "close")

\* close: self.flush()? under the mmap guard
close_flush(t) ==
    /\ thr[t].pc = "close"
    /\ Free({"mmap"})
    /\ IF Poisoned({"mmap"})
       THEN Panicked(t)
       ELSE /\ thr' = [thr EXCEPT ![t].pc = "close_unmap"]
            /\ UNCHANGED <<inst, file, hist>>
    /\ UNCHANGED appendOther

\* close: *self.mmap.lock().unwrap() = None; Ok(())
close_unmap(t) ==
    /\ thr[t].pc = "close_unmap"
    /\ Free({"mmap"})
    /\ IF Poisoned({"mmap"})
       THEN Panicked(t)
       ELSE /\ inst' = [inst EXCEPT !.mmap = NoMmap]
            /\ thr' = [thr EXCEPT ![t].pc = "done", ![t].ret = "ok"]
            /\ UNCHANGED <<file, hist>>
    /\ UNCHANGED appendOther

\* the steps of one thread that calls the storage
AppendStep(t) ==
    \/ \E data_points \in AppendBatches, now \in LogClock : append_data_points(t, data_points, now)
    \/ write_data_block(t)
    \/ resize_file_unmap(t)
    \/ resize_file_set_len(t)
    \/ resize_file_create_mmap(t)
    \/ write_data_block_copy(t)
    \/ update_header_lock(t)
    \/ update_header_write(t)
    \/ Storage_stats(t)
    \/ stats_lock_header(t)
    \/ stats_read(t)
    \/ Storage_read_all(t)
    \/ read_all_lock_header(t)
    \/ read_all_lock_mmap(t)
    \/ read_all_loop(t)
    \/ Storage_close(t)
    \/ close_flush(t)
    \/ close_unmap(t)

AppendNext == \E t \in Threads : AppendStep(t)

SpecAppend == AppendInit /\ [][AppendNext]_vars

-----------------------------------------------------------------------------
(* Ring buffer claims *)

Min(a, b) == IF a <= b THEN a ELSE b

LastN(seq, n) == SubSeq(seq, Len(seq) - n + 1, Len(seq))

\* TTL eviction removes nothing from rb at clock reading now
NoExpiry(rb, now) ==
    \/ rb.ttl_seconds = 0
    \/ rb.buffer = <<>>
    \/ ~(now - Head(rb.buffer).timestamp > rb.ttl_seconds * NANOS_PER_SEC)

RECURSIVE LeadingExpired(_, _, _)
LeadingExpired(seq, now, ttl_nanos) ==
    IF seq = <<>> \/ ~(now - Head(seq).timestamp > ttl_nanos) THEN 0
    ELSE 1 + LeadingExpired(Tail(seq), now, ttl_nanos)

\* TTL eviction removes at most one sample from rb at clock reading now
AtMostOneExpired(rb, now) ==
    \/ rb.ttl_seconds = 0
    \/ LeadingExpired(rb.buffer, now, rb.ttl_seconds * NANOS_PER_SEC) <= 1

PushedOnFull == op.name = "push" /\ Len(op.before.buffer) = op.before.capacity
                    /\ op.before.buffer # <<>>

PushedOnNonFull == op.name = "push" /\ Len(op.before.buffer) < op.before.capacity

\* C1: in every reachable state the number of contained samples is at most
\* the capacity, for every capacity including 0.
C1_SizeAtMostCapacity == Len(ring.buffer) <= ring.capacity

\* C2: no sample leaves the ring uncounted: total_written = len + total_evicted
\* after any sequence of push, clear and compact.
C2_NoSilentLoss == ring.total_written = Len(ring.buffer) + ring.total_evicted

FullPushEffect ==
    /\ ring.buffer = Append(Tail(op.before.buffer), op.dp)
    /\ Len(ring.buffer) = Len(op.before.buffer)
    /\ ring.total_evicted = op.before.total_evicted + 1
    /\ ring.memory_usage = op.before.memory_usage + size_bytes(op.dp)
                              - size_bytes(Head(op.before.buffer))

NonFullPushEffect ==
    /\ Len(ring.buffer) = Len(op.before.buffer) + 1
    /\ ring.total_written = op.before.total_written + 1
    /\ ring.memory_usage = op.before.memory_usage + size_bytes(op.dp)

\* C4 as stated: a push on a non-full ring, for any TTL setting and any clock
\* value, increases len by 1, total_written by 1 and memory_usage by
\* s.size_bytes.
C4_Original == PushedOnNonFull => NonFullPushEffect

\* C4 as amended: a push on a non-full ring whose front sample is not
\* TTL-expired at push time increases len by 1, total_written by 1 and
\* memory_usage by s.size_bytes; total_written increases by 1 on every push.
C4_PushOnNonFullRing ==
    /\ (PushedOnNonFull /\ NoExpiry(op.before, op.now)) => NonFullPushEffect
    /\ op.name = "push" => ring.total_written = op.before.total_written + 1

C4_Witness ==
    /\ PushedOnNonFull /\ NoExpiry(op.before, op.now)
    /\ op.before.ttl_seconds > 0
    /\ op.before.buffer # <<>>

\* C5: in every reachable state memory_usage equals the sum of size_bytes
\* over the samples currently contained.
C5_MemoryUsageIsSum == ring.memory_usage = SumSizes(ring.buffer)

C5_Witness ==
    /\ op.name = "push"
    /\ ring.total_evicted >= 2
    /\ Len(ring.buffer) = 2
    /\ ring.ttl_seconds > 0
    /\ ring.buffer[1] # ring.buffer[2]

-----------------------------------------------------------------------------
(* Engine claims *)

Returned(t, kind) == thr[t].pc = "done" /\ thr[t].kind = kind

\* C6: once write(s) or a write_batch containing s has returned ok on a
\* thread, every later query_range(lo, hi) of that thread with
\* lo <= s.timestamp <= hi returns s, whether or not s was evicted from the ring.
C6_ReadYourWrites ==
    \A t \in Threads :
        (Returned(t, "query_range") /\ thr[t].ret = "ok") =>
            \A s \in hist.acked[t] :
                (thr[t].lo <= s.timestamp /\ s.timestamp <= thr[t].hi) =>
                    s \in SeqToSet(thr[t].result)

\* C7: a single-sample write has no partial success, also when the ring lock
\* or the index lock is poisoned: either it returns ok and s went into both the
\* ring and the Combined Index, or it returns an error and neither changed.
C7_NoPartialSuccess ==
    \A t \in Threads :
        Returned(t, "write") =>
            \/ thr[t].ret = "ok" /\ thr[t].npushed = 1 /\ thr[t].nadded = 1
            \/ thr[t].ret = "err" /\ thr[t].npushed = 0 /\ thr[t].nadded = 0

\* C8: a write_batch that fails at its k-th ring push returns that failure with
\* k-1 samples pushed and none added to the Combined Index; when every push
\* succeeds all samples of the batch are added to the Combined Index in batch
\* order.
C8_BatchOutcome ==
    \A t \in Threads :
        Returned(t, "write_batch") =>
            LET me == thr[t]
                n == Len(me.batch)
            IN  \/ /\ me.ret = "err"
                   /\ me.npushed = me.k - 1
                   /\ me.nadded = 0
                \/ /\ me.ret = "ok"
                   /\ me.npushed = n
                   /\ me.nadded = n
                   /\ Len(index.data_points) >= me.start + n
                   /\ SubSeq(index.data_points, me.start + 1, me.start + n) = me.batch

\* the positions registered under any timestamp of the Time Index
TimePositions(ci) ==
    UNION {SeqToSet(ci.time_index.index[ts]) : ts \in DOMAIN ci.time_index.index}

\* the positions registered under any (key, value) of the Tag Index
TagPositions(ci) ==
    UNION {UNION {SeqToSet(ci.tag_index.index[key][value]) :
                     value \in DOMAIN ci.tag_index.index[key]} :
              key \in DOMAIN ci.tag_index.index}

\* every sample is in all three of the sample vector, the Time Index and the
\* Tag Index, and no index entry lacks its sample or its tag registration
IndexConsistent(ci) ==
    LET held == 0 .. (Len(ci.data_points) - 1)
        tagged == {p \in held : ci.data_points[p + 1].tags.some}
    IN  /\ TimePositions(ci) = held
        /\ ci.time_index.total_points = Len(ci.data_points)
        /\ \A p \in held :
              LET ts == ci.data_points[p + 1].timestamp
              IN  ts \in DOMAIN ci.time_index.index /\ p \in SeqToSet(ci.time_index.index[ts])
        /\ DOMAIN ci.tag_index.reverse_index = tagged
        /\ TagPositions(ci) \subseteq tagged
        /\ \A p \in tagged :
              /\ ci.tag_index.reverse_index[p] = ci.data_points[p + 1].tags.map
              /\ \A kv \in ci.data_points[p + 1].tags.map :
                    LET hit == get_by_tag(ci.tag_index, kv[1], kv[2])
                    IN  hit.some /\ p \in SeqToSet(hit.positions)

\* C9: a query that reads the Combined Index while other threads write sees
\* each written sample in none or in all of the sample vector, the Time Index
\* and the Tag Index, and the samples of one write_batch either all or none.
C9_QuerySeesWholeWrites ==
    \A t \in Threads :
        thr[t].pc = "q_read" =>
            /\ ilock.writer = NoThread
            /\ IndexConsistent(index)
            /\ \A u \in Threads : thr[u].nadded \in {0, Len(thr[u].batch)}

C9_Witness ==
    \E t \in Threads, u \in Threads :
        /\ t # u
        /\ thr[t].pc = "q_read"
        /\ thr[u].pc = "w_idx" /\ thr[u].npushed >= 1 /\ thr[u].nadded = 0
        /\ Len(index.data_points) >= 2
        /\ \E p \in 1..Len(index.data_points) : index.data_points[p].tags.some

\* C16: no public engine operation panics: for all inputs, query_range with
\* lo > hi included, a call returns ok or a typed error.
C16_NoPanic ==
    \A t \in Threads : thr[t].kind = "query_range" => thr[t].pc # "panicked"

-----------------------------------------------------------------------------
(* Log claims *)

RECURSIVE FlushedSamples(_)
FlushedSamples(blocks) ==
    IF blocks = <<>> THEN <<>>
    ELSE decompress(AdaptiveCompressor_new, Head(blocks).block).v \o FlushedSamples(Tail(blocks))

\* instance i is opening a file that holds appended and flushed blocks
OpensFlushedLog(i) == inst[i].pc = "load_existing" /\ file.blocks # <<>>

\* instance i is loaded and read_all_data_points returns the flushed samples
ReadsBack(i) ==
    /\ inst[i].pc = "loaded"
    /\ read_all_data_points(inst[i], file) =
          [ok |-> TRUE, points |-> FlushedSamples(file.blocks)]

\* C10: persistence round trip: after append_data_points calls and flush() in
\* one instance, a second instance opened on the same file returns from
\* read_all_data_points exactly the appended samples, in the same order.
C10_RoundTrip == \A i \in Instances : OpensFlushedLog(i) ~> ReadsBack(i)

\* the end of the last block of the file (data_offset when it holds none)
EndOfBlocks(f) ==
    IF f.blocks = <<>> THEN f.header.data_offset
    ELSE LET last == f.blocks[Len(f.blocks)] IN last.offset + block_size(last.block)

\* instance i went through load_existing and has set its write offset
OffsetLoaded(i) ==
    /\ inst[i].file_exists
    /\ inst[i].pc \in {"create_mmap", "loaded", "deadlocked", "panicked"}

\* C13: on opening an existing Log file the write offset is set to the end of
\* the last valid block, not to data_offset.
C13_WriteOffsetRecovered ==
    \A i \in Instances : OffsetLoaded(i) => inst[i].write_offset = EndOfBlocks(file)

\* header differs from a valid header in exactly one checksum-covered field
IsSingleFieldMutation(header) ==
    \E field \in CoveredFields, d \in HeaderMutations :
        LET valid == mutate(header, field, -d)
        IN  validate(valid) /\ valid.checksum = calculate_checksum(valid)

\* C15: opening a Log file whose header differs from a valid header by a
\* mutation of one of magic, version, total_points, created_at fails with a
\* Persistence error and leaves no storage instance loaded.
C15_MutatedHeaderRejected ==
    \A i \in Instances :
        (IsSingleFieldMutation(file.header) /\ file.len >= SIZE_OF_FILE_HEADER) =>
            /\ inst[i].pc \in {"start", "open", "load_existing", "failed"}
            /\ inst[i].pc = "failed" => inst[i].ret = "Persistence"
            /\ ~inst[i].mmap.some

\* a header passing validate is rejected by its checksum alone
C15_Witness ==
    \E i \in Instances :
        /\ inst[i].pc = "failed"
        /\ IsSingleFieldMutation(file.header)
        /\ validate(file.header)
        /\ file.header.total_points > Len(FlushedSamples(file.blocks))

\* C18: for all bounds lo <= hi, every non-empty tag predicate and both
\* operators, query_combined returns exactly the samples that are in both
\* query_time_range(lo, hi) and query_tags(tags, op), each stored sample at
\* most once.
C18_CombinedIsIntersection ==
    (q.name = "query_combined" /\ q.lo <= q.hi /\ q.order # <<>>) =>
        /\ ~q.panicked
        /\ q.result = deref(index, q.positions)
        /\ \A order \in IterationOrders(SeqToSet(q.order)) :
             LET time == SeqToSet(TimeIndex_get_range(index.time_index, q.lo, q.hi))
                 tagp == SeqToSet(tag_positions(index.tag_index, order, q.use_and))
             IN  /\ SeqToSet(q.positions) = time \cap tagp
                 /\ Len(q.positions) = Cardinality(time \cap tagp)
                 /\ SeqToSet(q.result) =
                        SeqToSet(query_time_range(index, q.lo, q.hi))
                            \cap SeqToSet(query_tags(index, order, q.use_and))

C18_Witness ==
    /\ q.name = "query_combined" /\ q.lo <= q.hi /\ Len(q.order) = 2
    /\ q.result # <<>>
    /\ Len(q.result) < Len(query_time_range(index, q.lo, q.hi))
    /\ Len(q.result) < Len(query_tags(index, q.order, q.use_and))
    /\ q.positions[1] # 0

\* the positions whose stored timestamp is within [lo, hi], ascending
ExpectedRange(lo, hi) ==
    SelectSeq([i \in 1..Len(index.data_points) |-> i - 1],
              LAMBDA p : lo <= index.data_points[p + 1].timestamp
                         /\ index.data_points[p + 1].timestamp <= hi)

\* C19: range(lo, hi) on the Time Index returns exactly the positions whose
\* stored timestamp t satisfies lo <= t <= hi, each once per add, in
\* ascending position order.
C19_RangeIsExact ==
    q.name = "get_range" =>
        /\ ~q.panicked
        /\ q.positions = ExpectedRange(q.lo, q.hi)

\* the same for the calls with start <= end, which BTreeMap::range accepts
RangeIsExactWhenOrdered ==
    (q.name = "get_range" /\ q.lo <= q.hi) =>
        /\ ~q.panicked
        /\ q.positions = ExpectedRange(q.lo, q.hi)

Posting(kv) == get_by_tag(index.tag_index, kv[1], kv[2])

\* C20: Tag Index AND: one pair gives the positions of get(k, v) as a set,
\* several pairs give the intersection of their get results, the result is
\* empty when any pair has no entry, and the empty predicate gives the
\* empty result.
C20_AndIsIntersection ==
    q.name = "get_by_tags_and" =>
        LET tags == SeqToSet(q.order)
        IN  /\ tags = {} => q.positions = <<>>
            /\ (\E kv \in tags : ~Posting(kv).some) => q.positions = <<>>
            /\ \A kv \in tags :
                 tags = {kv} => SeqToSet(q.positions) = SeqToSet(Posting(kv).positions)
            /\ tags # {} =>
                 SeqToSet(q.positions) =
                     {p \in 0..(Len(index.data_points) - 1) :
                         \A kv \in tags : p \in SeqToSet(Posting(kv).positions)}

C20_Witness ==
    /\ q.name = "get_by_tags_and" /\ Len(q.order) = 2
    /\ q.positions # <<>>
    /\ \A i \in 1..2 : Len(q.positions) < Len(Posting(q.order[i]).positions)

\* the Log file holds a flushed Log with an intact header
ValidLog(f) ==
    /\ f.exists /\ f.len >= SIZE_OF_FILE_HEADER
    /\ validate(f.header) /\ verify_checksum(f.header)

PersistenceEnabled == eng.config.enable_persistence /\ eng.config.storage_path

\* C11: with persistence enabled, every sample accepted by write or
\* write_batch is contained in a block of the Log once the next flush() has
\* completed successfully.
C11_FlushedToLog ==
    \A t \in Threads :
        (PersistenceEnabled /\ Returned(t, "flush") /\ thr[t].ret = "ok") =>
            \A s \in hist.acked[t] : s \in SeqToSet(FlushedSamples(file.blocks))

\* C12: an engine opened with persistence on an existing Log file comes up
\* with every sample of the Log's valid blocks in the Combined Index.
OpensExistingLog == eng.pc = "init_storage" /\ ValidLog(file)

Recovered ==
    /\ eng.pc = "ready"
    /\ \A s \in SeqToSet(FlushedSamples(file.blocks)) : s \in SeqToSet(index.data_points)

C12_IndexRebuiltOnOpen == OpensExistingLog ~> Recovered

\* the samples in ascending order of timestamp
SortedByTime(points) == SortSeq(points, LAMBDA a, b : a.timestamp < b.timestamp)

\* the indexed samples that a builder's bounds and tags select, ascending
MatchesTags(dp, tags) ==
    \A i \in 1..Len(tags) : dp.tags.some /\ tags[i] \in dp.tags.map

Matching(self) ==
    SelectSeq(SortedByTime(index.data_points),
              LAMBDA dp : /\ unwrap_or(self.start_time, Timestamp_MIN) <= dp.timestamp
                          /\ dp.timestamp <= unwrap_or(self.end_time, Timestamp_MAX)
                          /\ MatchesTags(dp, self.tags))

SameSamples(a, b) == Len(a) = Len(b) /\ SeqToSet(a) = SeqToSet(b)

Latest(n) == LastN(SortedByTime(index.data_points), Min(n, Len(index.data_points)))

Executed == q.name = "execute"

\* C21: plan selection: a query with only a lower bound selects exactly the
\* matching samples at or after it, one with only an upper bound exactly
\* those at or before it, and one with no bounds and no tags the latest
\* `limit` samples when a limit is set and every indexed sample otherwise.
C21_PlanSelection ==
    Executed /\ ~q.builder.aggregation.some =>
        LET self == q.builder IN
        /\ self.start_time.some # self.end_time.some =>
               ~q.panicked /\ SameSamples(q.candidates, Matching(self))
        /\ ~self.start_time.some /\ ~self.end_time.some /\ self.tags = <<>> =>
               /\ ~q.panicked
               /\ IF self.limit.some
                  THEN q.candidates = Latest(self.limit.v)
                  ELSE SameSamples(q.candidates, index.data_points)

Filtered(self) ==
    /\ self.start_time.some \/ self.end_time.some \/ self.tags # <<>>
    /\ unwrap_or(self.start_time, Timestamp_MIN) <= unwrap_or(self.end_time, Timestamp_MAX)

\* C22: a raw query with a time range and/or tags and limit n returns the
\* first min(n, matches) matching samples in ascending order of timestamp,
\* whatever the order the samples were written in; a limit does not change
\* the results of an aggregation.
C22_LimitKeepsEarliest ==
    Executed /\ q.builder.limit.some =>
        LET self == q.builder IN
        /\ ~self.aggregation.some /\ Filtered(self) =>
               q.points = SubSeq(Matching(self), 1, Min(self.limit.v, Len(Matching(self))))
        /\ self.aggregation.some =>
               q.aggs = execute([self EXCEPT !.limit = None], index, q.overflow_checks).aggs

\* C23: get_latest(n) returns the min(n, indexed) samples of greatest
\* timestamp in ascending order, also when the greatest stored timestamp is
\* the largest value of the type.
C23_LatestAreGreatest ==
    q.name = "get_latest" => ~q.panicked /\ q.points = Latest(q.n)

Grouped == Executed /\ q.builder.aggregation.some /\ q.builder.group_by_interval.some

\* C24: grouped aggregation with interval I > 0 buckets by floor division:
\* every candidate sample, of positive, zero or negative timestamp t, is
\* counted in the single result whose window [bucket*I, (bucket+1)*I - 1]
\* contains t.
C24_WindowContainsSample ==
    Grouped /\ q.builder.group_by_interval.v > 0 =>
        LET I == q.builder.group_by_interval.v IN
        /\ ~q.panicked
        /\ \A i \in 1..Len(q.candidates) :
               LET dp == q.candidates[i]
                   holding == {k \in 1..Len(q.aggs) : dp \in SeqToSet(q.aggs[k].group)}
               IN  /\ Cardinality(holding) = 1
                   /\ \A k \in holding :
                          /\ q.aggs[k].start_timestamp = (dp.timestamp \div I) * I
                          /\ q.aggs[k].end_timestamp = (dp.timestamp \div I + 1) * I - 1
                          /\ q.aggs[k].start_timestamp <= dp.timestamp
                          /\ dp.timestamp <= q.aggs[k].end_timestamp

RECURSIVE SumOfCounts(_)
SumOfCounts(aggs) == IF aggs = <<>> THEN 0 ELSE Head(aggs).count + SumOfCounts(Tail(aggs))

\* C25: a grouped aggregation returns one result for each bucket that has a
\* candidate sample and none for the others, in strictly ascending order of
\* start timestamp, the counts adding up to the number of candidates; with
\* no candidates the list of results is empty.
C25_OneResultPerBucket ==
    Grouped =>
        LET I == q.builder.group_by_interval.v
            starts == {(q.candidates[i].timestamp \div I) * I : i \in 1..Len(q.candidates)}
        IN  /\ ~q.panicked
            /\ q.candidates = <<>> => q.aggs = <<>>
            /\ I > 0 =>
                   /\ {q.aggs[k].start_timestamp : k \in 1..Len(q.aggs)} = starts
                   /\ \A k \in 1..Len(q.aggs) : q.aggs[k].count > 0
                   /\ \A j, k \in 1..Len(q.aggs) :
                          j < k => q.aggs[j].start_timestamp < q.aggs[k].start_timestamp
                   /\ SumOfCounts(q.aggs) = Len(q.candidates)

\* the numeric samples of a group: integer, float and boolean values
Numeric(group) == SelectSeq(group, LAMBDA dp : dp.value.kind \in {"Integer", "Float", "Boolean"})

RECURSIVE Total(_)
Total(group) == IF group = <<>> THEN 0 ELSE Head(group).value.i + Total(Tail(group))

\* an Option<Value> is Some(Value::Float(num / den))
IsFloat(option, num, den) ==
    /\ option.some
    /\ option.v.kind = "Float"
    /\ IF "den" \in DOMAIN option.v
       THEN option.v.num * den = num * option.v.den
       ELSE option.v.i * den = num

\* the value of a result is the one the aggregation type asks of its group
ValueOf(r) ==
    LET numeric == Numeric(r.group)
        values == {numeric[i].value.i : i \in 1..Len(numeric)}
    IN  CASE r.aggregation = "Count" ->
                r.value.some /\ r.value.v = Value_Integer(Len(r.group))
          [] r.aggregation = "Sum" -> IsFloat(r.value, Total(numeric), 1)
          [] r.aggregation = "Min" ->
                numeric # <<>> =>
                    \E v \in values : IsFloat(r.value, v, 1) /\ \A w \in values : v <= w
          [] r.aggregation = "Max" ->
                numeric # <<>> =>
                    \E v \in values : IsFloat(r.value, v, 1) /\ \A w \in values : w <= v
          [] r.aggregation = "Average" ->
                numeric # <<>> => IsFloat(r.value, Total(numeric), Len(numeric))
          [] OTHER -> TRUE

\* the results of an aggregation are computed from the candidates of the
\* plan: all of them without grouping
FromCandidates ==
    ~q.builder.group_by_interval.some =>
        Len(q.aggs) = 1 /\ q.aggs[1].group = q.candidates /\ q.aggs[1].count = Len(q.candidates)

\* C26: aggregation values, when at least one sample matches: Count is the
\* number of matching samples of any variant, as an integer; Sum, Min, Max
\* and Average are computed over the integer, float and boolean values only
\* (a boolean as 0 or 1), strings and bytes being ignored, and Average
\* divides the sum by the number of numeric samples.
C26_AggregationValues ==
    Executed /\ q.builder.aggregation.some /\ ~q.panicked =>
        /\ FromCandidates
        /\ \A k \in 1..Len(q.aggs) : q.aggs[k].group # <<>> => ValueOf(q.aggs[k])

\* an Average over a string, an integer and a float that is not whole
C26_Witness ==
    /\ Executed
    /\ q.builder.aggregation = Some("Average")
    /\ ~q.builder.group_by_interval.some
    /\ ~q.panicked
    /\ \E i \in 1..Len(q.candidates) : q.candidates[i].value.kind = "String"
    /\ Len(Numeric(q.candidates)) = 2
    /\ "den" \in DOMAIN q.aggs[1].value.v

\* the values are those of the claim for every number of matching samples,
\* none included
C26_AggregationValuesAlways ==
    Executed /\ q.builder.aggregation.some /\ ~q.panicked =>
        /\ FromCandidates
        /\ \A k \in 1..Len(q.aggs) : ValueOf(q.aggs[k])

\* C27: First returns, in its own variant, the value of the matching sample
\* of smallest timestamp, and Last that of the matching sample of greatest
\* timestamp, whatever the order the samples were written in.
C27_FirstAndLastByTime ==
    Executed /\ q.builder.aggregation.some /\ ~q.panicked =>
        \A k \in 1..Len(q.aggs) :
            LET r == q.aggs[k] ordered == SortedByTime(r.group) IN
            r.group # <<>> =>
                /\ r.aggregation = "First" => r.value = Some(ordered[1].value)
                /\ r.aggregation = "Last" => r.value = Some(ordered[Len(ordered)].value)

\* C28: codec round trip: for every batch of samples (any value variants,
\* with or without tags, below or above the size threshold, stored raw or
\* compressed), decoding the encoded batch gives the batch.
C28_CodecRoundTrip ==
    q.name = "decompress" =>
        /\ q.decompressed.ok
        /\ q.decompressed.v = q.data_points

C28_Witness ==
    /\ q.name = "decompress"
    /\ q.compressed.is_compressed
    /\ Len(q.data_points) = 2
    /\ \E i \in 1..2 : q.data_points[i].tags.some /\ q.data_points[i].tags.map # {}
    /\ q.decompressed.v = q.data_points

\* C29: for every batch and every threshold setting, encode stores whichever
\* of the raw serialized form and the compressed form is smaller, so the
\* stored size never exceeds the serialized size.
C29_StoresTheSmaller ==
    q.name = "compress_if_beneficial" =>
        /\ q.compressed.data.len = Min(serialize(q.data_points).len, q.compressed_len)
        /\ q.compressed.data.len <= serialize(q.data_points).len

\* C30: enable_compression and compression_level control the block codec of
\* the Log: with enable_compression = false the storage's codec stores every
\* batch with is_compressed = false, and with it enabled the codec
\* compresses at the configured compression_level.
C30_ConfigControlsCodec ==
    \A i \in Instances :
        inst[i].pc \notin {"start", "open"} =>
            /\ ~inst[i].config.enable_compression =>
                 \A data_points \in Batches \cup {LargeBatch} :
                 \A compressed_len \in ZstdLengths(serialize(data_points)) :
                     ~compress_if_beneficial(inst[i].compressor, data_points,
                                             compressed_len).is_compressed
            /\ inst[i].config.enable_compression =>
                 inst[i].compressor.compressor.level = inst[i].config.compression_level

\* a sample is expired at the push: its age is above the TTL
ExpiredAtPush(dp) == op.now - dp.timestamp > op.before.ttl_seconds * NANOS_PER_SEC

\* the number of samples at the front of the ring, before the push, that are
\* all expired
ExpiredRun ==
    Cardinality({j \in 1..Len(op.before.buffer) :
                    \A i \in 1..j : ExpiredAtPush(op.before.buffer[i])})

PushedWithTtl == op.name = "push" /\ op.before.ttl_seconds > 0

\* C35: TTL eviction on push with ttl > 0: before the sample is appended the
\* ring drops exactly its leading run of expired samples, counting each in
\* total_evicted, and stops at the first front sample that is not expired;
\* an expired sample behind it and the pushed sample, expired or not, stay
\* (capacity eviction then drops at most the one front sample of a full ring).
C35_TtlEvictsExpiredFront ==
    PushedWithTtl =>
        LET b == op.before
            rest == SubSeq(b.buffer, ExpiredRun + 1, Len(b.buffer))
            full == Len(rest) >= b.capacity /\ rest # <<>>
        IN  /\ ring.buffer = (IF full THEN Tail(rest) ELSE rest) \o <<op.dp>>
            /\ ring.total_evicted = b.total_evicted + ExpiredRun + (IF full THEN 1 ELSE 0)

\* a push that dropped an expired front sample, kept the sample behind it
\* that is not expired, and appended a sample that is itself expired
C35_Witness ==
    /\ PushedWithTtl
    /\ ExpiredRun = 1
    /\ Len(op.before.buffer) = 2
    /\ ~ExpiredAtPush(op.before.buffer[2])
    /\ ExpiredAtPush(op.dp)
    /\ ring.buffer = <<op.before.buffer[2], op.dp>>

TagPairs == UNION TagSets

\* position p is in the posting list of the pair kv
Listed(p, kv) ==
    LET posting == get_by_tag(index.tag_index, kv[1], kv[2])
    IN  posting.some /\ p \in SeqToSet(posting.positions)

\* the reverse map holds position p with the pair kv
Reversed(p, kv) ==
    p \in DOMAIN index.tag_index.reverse_index /\ kv \in index.tag_index.reverse_index[p]

\* C36: after any sequence of Tag Index add and remove calls, also with add
\* called twice for one position with different tags, a position is in the
\* posting list of (k, v) exactly if the reverse map holds it with k = v,
\* and no posting list and no key bucket is empty.
C36_PostingsMatchReverse ==
    /\ \A p \in TagSlots, kv \in TagPairs : Listed(p, kv) <=> Reversed(p, kv)
    /\ \A key \in DOMAIN index.tag_index.index :
           /\ DOMAIN index.tag_index.index[key] # {}
           /\ \A value \in DOMAIN index.tag_index.index[key] :
                  index.tag_index.index[key][value] # <<>>

-----------------------------------------------------------------------------
(* Ring and Combined Index under concurrent writers *)

\* the places (1-based) at which sample s stands in seq
Places(seq, s) == {i \in 1..Len(seq) : seq[i] = s}

\* s stands exactly once in seq
Once(seq, s) == Cardinality(Places(seq, s)) = 1

\* the one place of s in seq
Place(seq, s) == CHOOSE i \in Places(seq, s) : TRUE

\* threads t and u have both returned ok from a write or write_batch, x was
\* written by t and y by u, and each is held once by the ring and once by the
\* sample vector of the Combined Index
WrittenByTwo(t, u, x, y) ==
    /\ t # u
    /\ thr[t].pc = "done" /\ thr[t].ret = "ok" /\ thr[t].kind \in {"write", "write_batch"}
    /\ thr[u].pc = "done" /\ thr[u].ret = "ok" /\ thr[u].kind \in {"write", "write_batch"}
    /\ x \in SeqToSet(thr[t].batch)
    /\ y \in SeqToSet(thr[u].batch)
    /\ x # y
    /\ Once(ring.buffer, x) /\ Once(ring.buffer, y)
    /\ Once(index.data_points, x) /\ Once(index.data_points, y)

\* C39: for any two samples written by write calls on different threads, the
\* order in which the ring holds them equals the order of their positions in the
\* Combined Index.
C39_RingOrderIsIndexOrder ==
    \A t \in Threads, u \in Threads :
        \A x \in EngSamples, y \in EngSamples :
            WrittenByTwo(t, u, x, y) =>
                (Place(ring.buffer, x) < Place(ring.buffer, y)
                    <=> Place(index.data_points, x) < Place(index.data_points, y))

\* no write or write_batch is in flight and neither lock is poisoned
WritesReturned ==
    /\ ~ringPoisoned
    /\ ~ilock.poisoned
    /\ \A t \in Threads :
          thr[t].kind \in {"write", "write_batch"} => thr[t].pc = "done"

\* C40: ring eviction never removes from the Combined Index: once every write
\* call has returned and no lock is poisoned, every sample held by the ring is in
\* the index, the index holds exactly total_writes samples, and every position
\* of the Time Index and the Tag Index is a valid index into the sample vector
\* whose sample has that timestamp and those tags.
C40_IndexKeepsEvicted ==
    WritesReturned =>
        /\ SeqToSet(ring.buffer) \subseteq SeqToSet(index.data_points)
        /\ Len(index.data_points) = stats.total_writes
        /\ IndexConsistent(index)

\* two writes have returned, the ring has evicted one of their samples, and the
\* index still holds it, tags included
C40_Witness ==
    /\ WritesReturned
    /\ stats.total_writes >= 2
    /\ Len(ring.buffer) < Len(index.data_points)
    /\ \E p \in 1..Len(index.data_points) :
          /\ index.data_points[p].tags.some
          /\ index.data_points[p] \notin SeqToSet(ring.buffer)

-----------------------------------------------------------------------------
(* Opening the Log *)

\* C31: opening the Log terminates: MmapStorage::new on a path with no file
\* returns a loaded storage with the mapping present, a file size of 1 MiB,
\* write_offset = data_offset and total_points = 0, on a valid existing file it
\* returns a loaded storage too, and neither path stops at a lock the opening
\* thread holds itself.
C31_OpenTerminates ==
    \A i \in Instances :
        /\ inst[i].pc \notin {"deadlocked", "panicked"}
        /\ (inst[i].pc = "loaded" /\ ~inst[i].file_exists) =>
              /\ inst[i].mmap = [some |-> TRUE, len |-> MIN_FILE_SIZE]
              /\ inst[i].file_size = MIN_FILE_SIZE
              /\ inst[i].write_offset = inst[i].header.data_offset
              /\ inst[i].header.total_points = 0

-----------------------------------------------------------------------------
(* Appending to the Log *)

\* thread t went into resize_file during its call
Resized(t) == thr[t].kind = "append_data_points" /\ thr[t].new_size > 0

RECURSIVE PointsBelow(_, _)
\* the samples of the blocks that write offset data_size covers
PointsBelow(laid, data_size) ==
    IF laid = <<>> THEN 0
    ELSE (IF Head(laid).offset + Head(laid).len <= data_size THEN Head(laid).point_count ELSE 0)
         + PointsBelow(Tail(laid), data_size)

\* thread t has returned ok from a stats or a read_all_data_points
Observed(t) ==
    /\ thr[t].kind \in {"stats", "read_all_data_points"}
    /\ thr[t].pc = "done"
    /\ thr[t].ret = "ok"

RECURSIVE Flatten(_)
Flatten(batches) ==
    IF batches = <<>> THEN <<>> ELSE Head(batches) \o Flatten(Tail(batches))

\* the timestamps of all samples of the appends that have returned
AppendedTimestamps == {dp.timestamp : dp \in SeqToSet(Flatten(hist.appended))}

\* every append that was started has returned
AppendsReturned == Len(hist.appended) = Len(hist.started)

Wanted(t) ==
    CASE thr[t].pc = "write_data_block" -> {"write_offset", "file_size"}
      [] thr[t].pc \in {"resize_file", "write_to_mmap", "write_header", "read_lock_mmap",
                        "close", "close_unmap"} -> {"mmap"}
      [] thr[t].pc \in {"set_len", "create_mmap"} -> {"file"}
      [] thr[t].pc \in {"update_header", "stats", "read_all"} -> {"header"}
      [] thr[t].pc = "stats_read" -> {"file_size", "write_offset"}
      [] thr[t].pc = "read_loop" -> {"write_offset"}
      [] OTHER -> {}

\* thread t cannot go on before thread u releases a mutex
WaitsFor(t, u) == \E m \in Wanted(t) : inst.locks[m].owner = u

StoredPoints(f) == Len(FlushedSamples(f.blocks))

====
